---------------------------- MODULE Spec2Model ----------------------------
(***************************************************************************)
(* Transcript-to-tutorial pipeline of app/api/generate/route.ts:           *)
(* chunkTranscript, extractSummary, getLastSectionPreview, mergeResponses, *)
(* the model roster with its process-wide exhausted set                    *)
(* (getAvailableModel, generateWithFallback) and the POST handler.         *)
(*                                                                         *)
(* Strings are sequences of one-character strings.  Indices held in        *)
(* variables are the 0-based indices of the TypeScript code; the helpers   *)
(* below translate to the 1-based indices of Sequences.                    *)
(***************************************************************************)
EXTENDS Integers, Sequences, FiniteSets, TLC

(***************************************************************************)
(* Program constants                                                       *)
(***************************************************************************)
CHUNK_SIZE == 20000

OVERLAP_SIZE == 500

\* the "- 200" / "+ 200" of the sentence-boundary search region
SEARCH_RADIUS == 200

FALLBACK_MODELS ==
  << "gemini-2.5-flash", "gemini-2.5-flash-lite", "gemini-3-flash",
     "gemini-2.0-flash", "gemini-1.5-flash" >>

(***************************************************************************)
(* JavaScript string primitives                                            *)
(***************************************************************************)
Min(a, b) == IF a < b THEN a ELSE b

Max(a, b) == IF a > b THEN a ELSE b

Clamp(n, len) == Max(0, Min(n, len))

\* String.prototype.substring(a, b): both ends clamped to [0, length],
\* swapped when a > b
substring(s, a, b) ==
  LET lo == Min(Clamp(a, Len(s)), Clamp(b, Len(s)))
      hi == Max(Clamp(a, Len(s)), Clamp(b, Len(s)))
  IN  SubSeq(s, lo + 1, hi)

\* String.prototype.slice(-n): the last n characters (all of s when shorter)
sliceLast(s, n) == SubSeq(s, Max(0, Len(s) - n) + 1, Len(s))

\* s has m at 0-based index i
OccursAt(s, m, i) ==
  /\ i >= 0
  /\ i + Len(m) <= Len(s)
  /\ SubSeq(s, i + 1, i + Len(m)) = m

\* the greatest element of a non-empty finite set of integers
SetMax(S) == CHOOSE x \in S : \A y \in S : y <= x

\* the elements of a sequence
Range(s) == { s[i] : i \in 1..Len(s) }

\* the least element of a non-empty finite set of integers
SetMin(S) == CHOOSE x \in S : \A y \in S : x <= y

\* 0-based indices at which m occurs in s
Occurrences(s, m) == { i \in 0..(Len(s) - Len(m)) : OccursAt(s, m, i) }

\* String.prototype.lastIndexOf(m): 0-based index of the last occurrence, -1 if none
lastIndexOf(s, m) ==
  IF Occurrences(s, m) = {} THEN -1 ELSE SetMax(Occurrences(s, m))

\* String.prototype.indexOf(m)
indexOf(s, m) ==
  IF Occurrences(s, m) = {} THEN -1 ELSE SetMin(Occurrences(s, m))

(***************************************************************************)
(* Character classes of the regular expressions                            *)
(***************************************************************************)
UpperCase ==
  { "A", "B", "C", "D", "E", "F", "G", "H", "I", "J", "K", "L", "M",
    "N", "O", "P", "Q", "R", "S", "T", "U", "V", "W", "X", "Y", "Z" }

LowerCase ==
  << "a", "b", "c", "d", "e", "f", "g", "h", "i", "j", "k", "l", "m",
     "n", "o", "p", "q", "r", "s", "t", "u", "v", "w", "x", "y", "z" >>

Digit == { "0", "1", "2", "3", "4", "5", "6", "7", "8", "9" }

\* [.!?]
IsSentenceEnd(c) == c \in { ".", "!", "?" }

\* number of consecutive characters of class cls in s from 1-based position p on
CharRun(s, p, cls) ==
  IF p > Len(s) THEN 0
  ELSE LET stops == { q \in p..Len(s) : s[q] \notin cls }
       IN  IF stops = {} THEN Len(s) - p + 1 ELSE SetMin(stops) - p

\* The characters written here through a name: a string of the model cannot
\* hold U+2000-U+200A, U+2028, U+2029, U+202F, U+205F and U+3000, which stand
\* as one-element tokens as BackTick does; U+000B, U+00A0, U+1680 and U+FEFF
\* are the characters themselves.
VT == ""

NBSP == " "

OghamSpace == " "

ZWNBSP == "﻿"

\* U+2000-U+200A, U+202F, U+205F, U+3000: the space separators
SpaceSeparators ==
  { "U+2000", "U+2001", "U+2002", "U+2003", "U+2004", "U+2005", "U+2006",
    "U+2007", "U+2008", "U+2009", "U+200A", "U+202F", "U+205F", "U+3000" }

LS == "U+2028"

PS == "U+2029"

\* LineTerminator: \n, \r, U+2028, U+2029
LineTerminator == { "\n", "\r", LS, PS }

\* \s of a regular expression, and what trim() removes: WhiteSpace and
\* LineTerminator of the language, 25 code units
WhiteSpace ==
  { "\t", VT, "\f", " ", NBSP, OghamSpace, ZWNBSP }
    \cup SpaceSeparators \cup LineTerminator

\* the length of the match of a greedy \s* at p
SpaceRun(s, p) == CharRun(s, p, WhiteSpace)

(***************************************************************************)
(* chunkTranscript                                                         *)
(***************************************************************************)
\* Length of the match of /[.!?]\s+(?=[A-Z])/ that starts at 1-based p, 0 if
\* none.  \s+ is greedy and an upper-case letter is no \s, so the match is the
\* mark, the whole whitespace run, and the letter must follow inside s.
SentenceEndLenAt(s, p) ==
  IF p <= Len(s) /\ IsSentenceEnd(s[p])
  THEN LET k == SpaceRun(s, p + 1)
       IN  IF k >= 1 /\ p + k + 1 <= Len(s) /\ s[p + k + 1] \in UpperCase
           THEN k + 1 ELSE 0
  ELSE 0

\* 1-based positions at which /[.!?]\s+(?=[A-Z])/g matches in s (a match
\* starts at a mark and consumes only whitespace after it, so matches never
\* overlap and every such position is a match of the global scan)
SentenceEnds(s) == { p \in 1..Len(s) : SentenceEndLenAt(s, p) > 0 }

\* the last element of searchRegion.match(/[.!?]\s+(?=[A-Z])/g), << >> when
\* match returns null
LastSentenceEnd(s) ==
  IF SentenceEnds(s) = {} THEN << >>
  ELSE LET p == SetMax(SentenceEnds(s))
       IN  SubSeq(s, p, p + SentenceEndLenAt(s, p) - 1)

\* lines 209-226: the end index of the window that starts at startIndex
WindowEnd(transcript, startIndex) ==
  LET endIndex     == startIndex + CHUNK_SIZE
      searchStart  == endIndex - SEARCH_RADIUS
      searchEnd    == endIndex + SEARCH_RADIUS
      searchRegion == substring(transcript, searchStart,
                                Min(searchEnd, Len(transcript)))
      last         == LastSentenceEnd(searchRegion)
      lastMatch    == lastIndexOf(searchRegion, last)
  IN  IF endIndex < Len(transcript) /\ last # << >> /\ lastMatch # -1
      THEN searchStart + lastMatch + Len(last)
      ELSE endIndex

\* line 231
NextStart_WholeWindow(endIndex) == endIndex - CHUNK_SIZE - SEARCH_RADIUS

NextStart(endIndex) == endIndex - OVERLAP_SIZE

\* line 234, the "prevent infinite loop" guard
LoopBreaks_Early(transcript, startIndex) ==
  startIndex >= Len(transcript) - CHUNK_SIZE

\* line 234 without the guard
LoopBreaks_Never(transcript, startIndex) == FALSE

LoopBreaks(transcript, startIndex) ==
  startIndex >= Len(transcript) - OVERLAP_SIZE

\* lines 208-237, the while loop from startIndex on
RECURSIVE chunkLoop(_, _, _)
chunkLoop(transcript, startIndex, chunks) ==
  IF ~(startIndex < Len(transcript)) THEN chunks
  ELSE LET endIndex == WindowEnd(transcript, startIndex)
           pushed   == Append(chunks, substring(transcript, startIndex, endIndex))
       IN  IF LoopBreaks(transcript, NextStart(endIndex)) THEN pushed
           ELSE chunkLoop(transcript, NextStart(endIndex), pushed)

\* line 201
FitsOneChunk_Never(transcript) == FALSE

FitsOneChunk(transcript) == Len(transcript) <= CHUNK_SIZE

chunkTranscript(transcript) ==
  IF FitsOneChunk(transcript) THEN << transcript >>
  ELSE chunkLoop(transcript, 0, << >>)

(***************************************************************************)
(* Lines and headings, as the regular expressions see them                 *)
(***************************************************************************)
\* a LineTerminator: what "." does not match and what "^" and "$" look at
\* under the m flag
IsLineTerm(c) == c \in LineTerminator

\* 1-based positions where "^" matches under the m flag
LineStartsOf(s) == { p \in 1..Len(s) : p = 1 \/ IsLineTerm(s[p - 1]) }

\* last position of the run of characters from p on that are not in stop
\* (p - 1 when the run is empty)
RunEnd(s, p, stop) ==
  LET stops == { q \in p..Len(s) : s[q] \in stop }
  IN  IF stops = {} THEN Len(s) ELSE SetMin(stops) - 1

\* the length of the match of a greedy #* at p
HashRun(s, p) == CharRun(s, p, { "#" })

\* End (1-based, inclusive) of the match of  #{h}\s+.+$  (m flag) that starts
\* at p, 0 if there is none.  \s+ takes the longest whitespace run after which
\* a character other than a line terminator follows (it gives characters back
\* when the run reaches the end of the text), and .+ then runs to the end of
\* that line.
HeadingEndAt(s, p, h) ==
  IF /\ p + h - 1 <= Len(s)
     /\ \A i \in 0..(h - 1) : s[p + i] = "#"
  THEN LET k == SpaceRun(s, p + h)
           J == { j \in 1..k : p + h + j <= Len(s) /\ ~IsLineTerm(s[p + h + j]) }
       IN  IF J = {} THEN 0
           ELSE RunEnd(s, p + h + SetMax(J), LineTerminator)
  ELSE 0

\* /^##?\s+.+$/m at p: the optional second "#" is taken when it is there, and
\* without it \s+ would have to match that "#"
Heading12EndAt(s, p) ==
  IF p + 1 <= Len(s) /\ s[p + 1] = "#"
  THEN HeadingEndAt(s, p, 2) ELSE HeadingEndAt(s, p, 1)

\* content.match(/^##?\s+.+$/gm) || []: the matches of the global scan, which
\* goes on after the end of each match
RECURSIVE ScanHeadings12(_, _, _)
ScanHeadings12(s, from, acc) ==
  LET starts == { p \in LineStartsOf(s) : p >= from /\ Heading12EndAt(s, p) > 0 }
  IN  IF starts = {} THEN acc
      ELSE LET p == SetMin(starts)
               e == Heading12EndAt(s, p)
           IN  ScanHeadings12(s, e + 1, Append(acc, SubSeq(s, p, e)))

\* h.replace(/^#+\s+/, '')
StripMarker(h) ==
  LET n == HashRun(h, 1)
      k == SpaceRun(h, n + 1)
  IN  IF n >= 1 /\ k >= 1 THEN SubSeq(h, n + k + 1, Len(h)) ELSE h

\* Array.prototype.join
RECURSIVE Join(_, _)
Join(parts, sep) ==
  IF Len(parts) = 0 THEN << >>
  ELSE IF Len(parts) = 1 THEN parts[1]
  ELSE parts[1] \o sep \o Join(Tail(parts), sep)

(***************************************************************************)
(* extractSummary                                                          *)
(***************************************************************************)
\* headings.slice(0, 10)
SUMMARY_HEADINGS == 10

\* content.slice(-500)
SUMMARY_FALLBACK == 500

SectionsCovered ==
  << "S", "e", "c", "t", "i", "o", "n", "s", " ",
     "c", "o", "v", "e", "r", "e", "d", ":", " " >>

CommaSpace == << ",", " " >>

TakeFirst_All(seq, n) == seq

TakeFirst(seq, n) == SubSeq(seq, 1, Min(n, Len(seq)))

extractSummary(content) ==
  LET headings     == ScanHeadings12(content, 1, << >>)
      taken        == TakeFirst(headings, SUMMARY_HEADINGS)
      summaryParts == [ i \in 1..Len(taken) |-> StripMarker(taken[i]) ]
  IN  IF Len(summaryParts) = 0
      THEN sliceLast(content, SUMMARY_FALLBACK)
      ELSE SectionsCovered \o Join(summaryParts, CommaSpace)

(***************************************************************************)
(* getLastSectionPreview                                                   *)
(***************************************************************************)
\* content.slice(-1000)
PREVIEW_TAIL == 1000

\* content.slice(-500)
PREVIEW_FALLBACK == 500

\* End of the match of  ##\s+[^\n]+  that starts at p, 0 if there is none
SectionEndAt(s, p) ==
  IF p + 1 <= Len(s) /\ s[p] = "#" /\ s[p + 1] = "#"
  THEN LET k == SpaceRun(s, p + 2)
           J == { j \in 1..k : p + 2 + j <= Len(s) /\ s[p + 2 + j] # "\n" }
       IN  IF J = {} THEN 0
           ELSE RunEnd(s, p + 2 + SetMax(J), { "\n" })
  ELSE 0

\* the last element of last1000.match(/##\s+[^\n]+/g), << >> when match
\* returns null
RECURSIVE LastSectionFrom(_, _, _)
LastSectionFrom(s, from, last) ==
  LET starts == { p \in from..Len(s) : SectionEndAt(s, p) > 0 }
  IN  IF starts = {} THEN last
      ELSE LET p == SetMin(starts)
               e == SectionEndAt(s, p)
           IN  LastSectionFrom(s, e + 1, SubSeq(s, p, e))

getLastSectionPreview(content) ==
  LET last1000         == sliceLast(content, PREVIEW_TAIL)
      lastHeading      == LastSectionFrom(last1000, 1, << >>)
      lastHeadingIndex == lastIndexOf(last1000, lastHeading)
  IN  IF lastHeading # << >>
      THEN substring(last1000, lastHeadingIndex, Len(last1000))
      ELSE sliceLast(content, PREVIEW_FALLBACK)

(***************************************************************************)
(* mergeResponses                                                          *)
(***************************************************************************)
Overview == << "O", "v", "e", "r", "v", "i", "e", "w" >>

\* current.match(/^##\s+.+$/m): the first match, << >> when null
FirstHeading2(s) ==
  LET starts == { p \in LineStartsOf(s) : HeadingEndAt(s, p, 2) > 0 }
  IN  IF starts = {} THEN << >>
      ELSE SubSeq(s, SetMin(starts), HeadingEndAt(s, SetMin(starts), 2))

\* the lookahead (?=##\s+\d) holds at 1-based position q
NumberedSectionAt(s, q) ==
  /\ q + 1 <= Len(s) /\ s[q] = "#" /\ s[q + 1] = "#"
  /\ LET k == SpaceRun(s, q + 2)
     IN  k >= 1 /\ q + 2 + k <= Len(s) /\ s[q + 2 + k] \in Digit

\* End (inclusive) of the match of
\*   #\s+[^\n]+\n+##\s+Overview[\s\S]*?(?=##\s+\d)
\* that starts at p with \s+ taking j characters, 0 if there is none.  After
\* \s+ every greedy part is forced: [^\n]+ must run to the "\n" that ends its
\* line, \n+ and the second \s+ are followed by characters they do not match,
\* and the lazy [\s\S]*? stops at the first numbered section.
TitleBlockEndAt(s, p, j) ==
  LET a == p + j                         \* last character of \s+
      b == RunEnd(s, a + 1, { "\n" })     \* last character of [^\n]+
      c == b + CharRun(s, b + 1, { "\n" }) \* last character of \n+
      d == c + 2 + SpaceRun(s, c + 3)     \* last character of ##\s+
      ends == { q \in (d + 9)..Len(s) : NumberedSectionAt(s, q) }
  IN  IF /\ b >= a + 1
         /\ c >= b + 1
         /\ c + 2 <= Len(s) /\ s[c + 1] = "#" /\ s[c + 2] = "#"
         /\ d >= c + 3
         /\ OccursAt(s, Overview, d)
         /\ ends # {}
      THEN SetMin(ends) - 1
      ELSE 0

\* the lengths \s+ can take at p, for which the whole pattern matches
TitleBlockSplits(s, p) ==
  IF p <= Len(s) /\ s[p] = "#"
  THEN { j \in 1..SpaceRun(s, p + 1) : TitleBlockEndAt(s, p, j) > 0 }
  ELSE {}

\* current.replace(/^#\s+[^\n]+\n+##\s+Overview[\s\S]*?(?=##\s+\d)/m, ''):
\* the first match (leftmost line start, longest \s+) is cut out
stripTitleBlock(current) ==
  LET starts == { p \in LineStartsOf(current) : TitleBlockSplits(current, p) # {} }
  IN  IF starts = {} THEN current
      ELSE LET p == SetMin(starts)
               e == TitleBlockEndAt(current, p, SetMax(TitleBlockSplits(current, p)))
           IN  SubSeq(current, 1, p - 1) \o SubSeq(current, e + 1, Len(current))

\* line 312, the replacement, one newline longer
RunReplacement_Four == << "\n", "\n", "\n", "\n" >>

\* line 312, the replacement '\n\n\n'
RunReplacement == << "\n", "\n", "\n" >>

\* merged.replace(/\n{4,}/g, '\n\n\n'): each match is a whole run of
\* newlines, \n{4,} being greedy
RECURSIVE collapseNewlines(_)
collapseNewlines(s) ==
  LET runs == { p \in 1..(Len(s) - 3) : \A i \in 0..3 : s[p + i] = "\n" }
  IN  IF runs = {} THEN s
      ELSE LET p == SetMin(runs)
               e == p + CharRun(s, p, { "\n" }) - 1
           IN  SubSeq(s, 1, p - 1) \o RunReplacement
                 \o collapseNewlines(SubSeq(s, e + 1, Len(s)))

BlankLine == << "\n", "\n" >>

\* lines 294-303: merged after the trim for the first heading of current
TrimAtHeading_None(merged, current) == merged

TrimAtHeading_KeepTail(merged, current) ==
  LET firstHeading      == FirstHeading2(current)
      headingInPrevious == lastIndexOf(merged, firstHeading)
  IN  IF firstHeading # << >> /\ headingInPrevious # -1
      THEN substring(merged, headingInPrevious, Len(merged))
      ELSE merged

TrimAtHeading(merged, current) ==
  LET firstHeading      == FirstHeading2(current)
      headingInPrevious == lastIndexOf(merged, firstHeading)
  IN  IF firstHeading # << >> /\ headingInPrevious # -1
      THEN substring(merged, 0, headingInPrevious)
      ELSE merged

\* lines 290-308, one iteration of the loop
MergeStep(merged, current) ==
  TrimAtHeading(merged, current) \o BlankLine \o stripTitleBlock(current)

\* the value undefined, and a TypeError raised, where a text is expected
Undefined == << "undefined" >>

TypeError == << "TypeError" >>

\* arr[i] of JavaScript, 0-based: undefined outside the array
ElementAt(arr, i) == IF i + 1 \in 1..Len(arr) THEN arr[i + 1] ELSE Undefined

\* line 289 with i <= responses.length
LoopRuns_OneMore(i, responses) == i <= Len(responses)

\* line 289: i < responses.length
LoopRuns(i, responses) == i < Len(responses)

\* lines 289-309, the loop from the 0-based index i on; current.match of
\* line 294 raises a TypeError when current is undefined
RECURSIVE mergeLoop(_, _, _)
mergeLoop(responses, i, merged) ==
  IF ~LoopRuns(i, responses) THEN merged
  ELSE IF ElementAt(responses, i) = Undefined THEN TypeError
  ELSE mergeLoop(responses, i + 1, MergeStep(merged, ElementAt(responses, i)))

\* line 283 without the early return
IsSingle_Never(responses) == FALSE

\* line 283: responses.length === 1
IsSingle(responses) == Len(responses) = 1

\* lines 282-315; merged.replace of line 312 raises a TypeError when merged
\* is undefined, which it is for an empty array
mergeResponses(responses) ==
  IF IsSingle(responses) THEN ElementAt(responses, 0)
  ELSE LET merged == mergeLoop(responses, 1, ElementAt(responses, 0))
       IN  IF merged \in { Undefined, TypeError } THEN TypeError
           ELSE collapseNewlines(merged)

(***************************************************************************)
(* extractVideoId (videoUtils.ts)                                          *)
(***************************************************************************)
\* null, undefined and "" alike: every test of them in the code is a
\* truthiness test
Null == << >>

WatchPrefix ==
  << "y", "o", "u", "t", "u", "b", "e", ".", "c", "o", "m", "/", "w", "a",
     "t", "c", "h", "?", "v", "=" >>

ShortPrefix ==
  << "y", "o", "u", "t", "u", ".", "b", "e", "/" >>

EmbedPrefix ==
  << "y", "o", "u", "t", "u", "b", "e", ".", "c", "o", "m", "/", "e", "m",
     "b", "e", "d", "/" >>

VPrefix ==
  << "y", "o", "u", "t", "u", "b", "e", ".", "c", "o", "m", "/", "v", "/" >>

UrlPrefixes == { WatchPrefix, ShortPrefix, EmbedPrefix, VPrefix }

\* [^&\n?#] is any character but these
IdStop == { "&", "\n", "?", "#" }

\* [a-zA-Z0-9_-]
IdChars == Range(LowerCase) \cup UpperCase \cup Digit \cup { "_", "-" }

\* 0-based indices at which the first pattern matches: one of the prefixes,
\* then at least one character of the identifier
PrefixMatches(url) ==
  { i \in 0..Len(url) :
      \E pre \in UrlPrefixes :
        /\ OccursAt(url, pre, i)
        /\ i + Len(pre) + 1 <= Len(url)
        /\ url[i + Len(pre) + 1] \notin IdStop }

extractVideoId(url) ==
  IF PrefixMatches(url) # {}
  THEN LET i   == SetMin(PrefixMatches(url))
           pre == CHOOSE pre \in UrlPrefixes : OccursAt(url, pre, i)
       IN  SubSeq(url, i + Len(pre) + 1, RunEnd(url, i + Len(pre) + 1, IdStop))
  ELSE IF Len(url) = 11 /\ \A k \in 1..11 : url[k] \in IdChars
  THEN url
  ELSE Null

(***************************************************************************)
(* fetchTranscriptWithFallback (transcriptUtils.ts)                        *)
(***************************************************************************)
\* text.length > 50 (strategy 1) and text.trim().length >= 50 (strategy 2)
MIN_TRANSCRIPT == 50

\* the languages strategy 2 asks for, in this order
Langs == << "en", "en-US", "en-GB", "auto" >>

InnerTubeSource == "youtubei.js (InnerTube)"

CaptionSource(lang) == "youtube-caption-extractor (" \o lang \o ")"

\* text.trim().length
TrimmedLen(text) ==
  LET solid == { q \in 1..Len(text) : text[q] \notin WhiteSpace }
  IN  IF solid = {} THEN 0 ELSE SetMax(solid) - SetMin(solid) + 1

\* What the two libraries answer is given as
\*   s1:        [kind |-> "throw"], [kind |-> "none"] or
\*              [kind |-> "text", text |-> the segments joined]
\*   s2[lang]:  the same for getSubtitles({videoID, lang})
\* The result is [kind |-> "ok", text, source], [kind |-> "null"] or
\* [kind |-> "throw"].
InnerTubeAccepts(s1) == s1.kind = "text" /\ Len(s1.text) > MIN_TRANSCRIPT

CaptionAccepts_AnyText(s2, k) == s2[Langs[k]].kind = "text"

CaptionAccepts(s2, k) ==
  /\ s2[Langs[k]].kind = "text"
  /\ TrimmedLen(s2[Langs[k]].text) >= MIN_TRANSCRIPT

\* return null, the throw of line 78, and return { text, source }
NoTranscript == [ kind |-> "null", text |-> Null, source |-> "" ]

FetchThrew == [ kind |-> "throw", text |-> Null, source |-> "" ]

Transcript(text, source) == [ kind |-> "ok", text |-> text, source |-> source ]

fetchTranscriptWithFallback(s1, s2) ==
  IF InnerTubeAccepts(s1)
  THEN Transcript(s1.text, InnerTubeSource)
  ELSE LET good == { k \in 1..Len(Langs) : CaptionAccepts(s2, k) }
       IN  IF good # {}
           THEN Transcript(s2[Langs[SetMin(good)]].text,
                           CaptionSource(Langs[SetMin(good)]))
           ELSE IF s1.kind = "throw" THEN FetchThrew
           ELSE NoTranscript

(***************************************************************************)
(* The model roster: getAvailableModel and generateWithFallback            *)
(***************************************************************************)
Roster == Range(FALLBACK_MODELS)

\* one retry short of the roster
maxRetries_OneLess == Len(FALLBACK_MODELS) - 1

\* const maxRetries = FALLBACK_MODELS.length
maxRetries == Len(FALLBACK_MODELS)

\* the last model not exhausted instead of the first
FirstAvailable_Last(exhausted) ==
  LET free == { k \in 1..Len(FALLBACK_MODELS) : FALLBACK_MODELS[k] \notin exhausted }
  IN  IF free = {} THEN FALLBACK_MODELS[1] ELSE FALLBACK_MODELS[SetMax(free)]

\* FALLBACK_MODELS.find(m => !exhausted.has(m)) || FALLBACK_MODELS[0]
FirstAvailable(exhausted) ==
  LET free == { k \in 1..Len(FALLBACK_MODELS) : FALLBACK_MODELS[k] \notin exhausted }
  IN  IF free = {} THEN FALLBACK_MODELS[1] ELSE FALLBACK_MODELS[SetMin(free)]

\* the same without the reset of line 32
getAvailableModel_NoReset(exhausted) ==
  [ model |-> FirstAvailable(exhausted), exhausted |-> exhausted ]

\* the same with the set cleared on every call
getAvailableModel_ClearAlways(exhausted) ==
  [ model |-> FirstAvailable(exhausted), exhausted |-> {} ]

\* lines 24-35: the model handed out and the exhausted set left behind
getAvailableModel(exhausted) ==
  IF \E k \in 1..Len(FALLBACK_MODELS) : FALLBACK_MODELS[k] \notin exhausted
  THEN [ model |-> FirstAvailable(exhausted), exhausted |-> exhausted ]
  ELSE [ model |-> FALLBACK_MODELS[1], exhausted |-> {} ]

\* line 48 with the fallback of the || always
ModelNameFor_Fallback(exhausted) == FALLBACK_MODELS[1]

\* line 48: the name is looked up again, in the set getAvailableModel left
ModelNameFor(exhausted) == FirstAvailable(exhausted)

\* the same without the limit of line 43
EnterGenerate_NoLimit(exhausted, retryCount) ==
  LET got == getAvailableModel(exhausted)
  IN  [ threw |-> FALSE, exhausted |-> got.exhausted, model |-> got.model,
        modelName |-> ModelNameFor(got.exhausted) ]

\* lines 41-48: generateWithFallback from its entry to the backend call
\* (or to the throw of line 44)
EnterGenerate(exhausted, retryCount) ==
  IF retryCount >= maxRetries
  THEN [ threw |-> TRUE, exhausted |-> exhausted, model |-> "", modelName |-> "" ]
  ELSE LET got == getAvailableModel(exhausted)
       IN  [ threw |-> FALSE, exhausted |-> got.exhausted, model |-> got.model,
             modelName |-> ModelNameFor(got.exhausted) ]

QuotaWord ==
  << "q", "u", "o", "t", "a" >>

ResourceExhausted ==
  << "R", "e", "s", "o", "u", "r", "c", "e", " ", "e", "x", "h", "a", "u",
     "s", "t", "e", "d" >>

QuotaMessage ==
  << "D", "a", "i", "l", "y", " ", "q", "u", "o", "t", "a", " ", "e", "x",
     "c", "e", "e", "d", "e", "d" >>

OtherMessage ==
  << "I", "n", "v", "a", "l", "i", "d", " ", "a", "r", "g", "u", "m", "e",
     "n", "t" >>

includes(s, m) == Occurrences(s, m) # {}

\* every error taken for a quota signal
IsQuotaError_Always(err) == TRUE

\* lines 58-59; an absent status is 0, an absent message is Null
IsQuotaError(err) ==
  \/ err.status = 429
  \/ err.status = 503
  \/ /\ err.message # Null
     /\ includes(err.message, QuotaWord) \/ includes(err.message, ResourceExhausted)

\* what the backend raises
BackendErrors ==
  { [ status |-> 429, message |-> Null ],
    [ status |-> 503, message |-> OtherMessage ],
    [ status |-> 0,   message |-> QuotaMessage ],
    [ status |-> 500, message |-> ResourceExhausted ],
    [ status |-> 500, message |-> OtherMessage ],
    [ status |-> 400, message |-> Null ] }

(***************************************************************************)
(* POST: the request record and the responses                              *)
(***************************************************************************)
ErrUrlRequired == "YouTube URL is required"

ErrInvalidUrl == "Invalid YouTube URL. Please provide a valid YouTube video link."

ErrNoApiKey == "API key not configured. Please add GEMINI_API_KEY to environment variables."

\* the first line of the message
ErrNoTranscript == "Could not extract transcript from this video."

ErrFailed == "Failed to generate tutorial. Please try again later."

NoResponse ==
  [ status |-> 0, error |-> "", tutorial |-> Null, videoId |-> Null,
    transcriptSource |-> "", chunksProcessed |-> 0 ]

\* what generateWithFallback has returned (line 53) and POST has not taken
\* yet (line 437)
NoResult == [ text |-> Null, model |-> "" ]

\* the locals of POST and of the generateWithFallback call it awaits
IdleReq ==
  [ pc |-> "idle", videoId |-> Null, transcript |-> Null,
    transcriptSource |-> "", chunks |-> << >>, i |-> 0, responses |-> << >>,
    previousSummary |-> Null, lastSectionPreview |-> Null,
    retryCount |-> 0, model |-> "", modelName |-> "",
    generated |-> Null, result |-> NoResult,
    chunkResponse |-> Null, usedModel |-> "", response |-> NoResponse ]

\* a handler slot the server does not use
OffReq == [ IdleReq EXCEPT !.pc = "off" ]

\* lines 50-53: the request q is inside the try of generateWithFallback, at
\* the await of line 51 or at the await of line 52
InCall(q) == q.pc \in { "generating", "responding" }

\* NextResponse.json({ error }, { status })
Ended(q, status, error) ==
  [ q EXCEPT !.pc = "done",
             !.response = [ NoResponse EXCEPT !.status = status, !.error = error ] ]

\* no error raised
NoError == [ status |-> 0, message |-> Null ]

\* what is recorded of the generate call that finished last, process-wide:
\* how it ended, the exhausted set it started with, the models it tried
NoCall == [ outcome |-> "", start |-> {}, attempts |-> << >> ]

\* what is recorded of a request: the url it came with, the calls it has
\* made so far (fetch: how the transcript fetch ended, "" when there was
\* none; chunked: the calls of chunkTranscript; callsFor:
\* the chunk index of each generate call, in the order made, and sent: the
\* prompt of each), the generate
\* call in progress (callStart, attempts, marked: the names it has added to
\* the exhausted set, prev, the call that finished before
\* it began, and disturbed: another request has changed the exhausted set
\* since it began; raised: what the backend raised last) and the last one it
\* finished
NoObs ==
  [ url |-> Null, fetch |-> "", chunked |-> 0, genCalls |-> 0,
    callsFor |-> << >>,
    sent |-> << >>,
    callStart |-> {},
    attempts |-> << >>, marked |-> << >>, prev |-> NoCall,
    disturbed |-> FALSE,
    raised |-> NoError,
    lastStart |-> {}, lastAttempts |-> << >>, lastOutcome |-> "" ]

\* line 342 without the check
NoApiKey_Never(keySet) == FALSE

\* line 342: !process.env.GEMINI_API_KEY
NoApiKey(keySet) == ~keySet

\* lines 351-363: the transcript POST is left with; a throw is caught and
\* leaves it null
TranscriptOf(result) == IF result.kind = "ok" THEN result.text ELSE Null

\* line 366: !transcript
MissingTranscript_Never(transcript) == FALSE

MissingTranscript(transcript) == transcript = Null

\* line 387 without the increment
NextIndex_Same(i) == i

\* line 387: i++
NextIndex(i) == i + 1

\* line 391: i === chunks.length - 1
IsLastChunk_OneEarly(i, chunks) == i >= Len(chunks) - 2

IsLastChunk(i, chunks) == i = Len(chunks) - 1

\* line 410, the two closing notes of the first prompt
NoteMultiPart ==
  "Note: This is part 1 of a multi-part transcript. Focus on the beginning sections (Overview, Prerequisites, Table of Contents, and start the main content). Do NOT include Summary/Next Steps yet."

NoteComplete == "Generate the complete tutorial now."

\* line 410 with the note of a single-part transcript always
ClosingNote_Complete(n) == NoteComplete

\* line 410: chunks.length > 1 ? ... : ...
ClosingNote(n) == IF n > 1 THEN NoteMultiPart ELSE NoteComplete

\* lines 394-432: the prompt for chunk q.i, by its parts: the template, the
\* part number and the number of parts, the chunk, the two context strings
\* put into the continuation template, the closing note of the first prompt
\* and whether FINAL_CHUNK_SUFFIX is appended
PromptFor(q) ==
  IF q.i = 0
  THEN [ template |-> "TUTORIAL_PROMPT", part |-> 1, of |-> Len(q.chunks),
         chunk |-> q.chunks[1], previousSummary |-> Null,
         lastSectionPreview |-> Null,
         note |-> ClosingNote(Len(q.chunks)),
         final |-> FALSE ]
  ELSE [ template |-> "CONTINUATION_PROMPT", part |-> q.i + 1,
         of |-> Len(q.chunks), chunk |-> q.chunks[q.i + 1],
         previousSummary |-> q.previousSummary,
         lastSectionPreview |-> q.lastSectionPreview,
         note |-> "", final |-> IsLastChunk(q.i, q.chunks) ]

\* what is recorded of a prompt: all of it but the chunk
SentPrompt(prompt) ==
  [ template |-> prompt.template, part |-> prompt.part, of |-> prompt.of,
    previousSummary |-> prompt.previousSummary,
    lastSectionPreview |-> prompt.lastSectionPreview,
    note |-> prompt.note, final |-> prompt.final ]

\* line 446 with the last result only
SummaryInput_LastOnly(responses) == responses[Len(responses)]

\* line 446: responses.join('\n\n')
SummaryInput(responses) == Join(responses, BlankLine)

\* line 437, up to the await: POST calls generateWithFallback(prompt) for
\* chunk q.i.  The result is the request, its record and the exhausted set.
BeginCall(q, o, exhausted, last) ==
  LET e == EnterGenerate(exhausted, 0)
  IN  [ q |-> [ q EXCEPT !.pc = "generating", !.retryCount = 0,
                         !.model = e.model, !.modelName = e.modelName ],
        o |-> [ o EXCEPT !.genCalls = @ + 1, !.callsFor = Append(@, q.i),
                         !.sent = Append(@, SentPrompt(PromptFor(q))),
                         !.callStart = exhausted,
                         !.attempts = << e.model >>, !.marked = << >>,
                         !.prev = last,
                         !.disturbed = FALSE, !.raised = NoError ],
        exhausted |-> e.exhausted ]

\* the record of a request whose generate call has ended
CallEnded(o, outcome) ==
  [ o EXCEPT !.lastStart = o.callStart, !.lastAttempts = o.attempts,
             !.lastOutcome = outcome ]

\* lines 366-437: POST from the fetched transcript to the first await
AfterFetch(q, o, result, exhausted, last) ==
  LET transcript == TranscriptOf(result)
      o1 == [ o EXCEPT !.fetch = result.kind ]
  IN  IF MissingTranscript(transcript)
      THEN [ q |-> Ended(q, 400, ErrNoTranscript), o |-> o1,
             exhausted |-> exhausted ]
      ELSE BeginCall([ q EXCEPT !.transcript = transcript,
                                !.transcriptSource = result.source,
                                !.chunks = chunkTranscript(transcript),
                                !.i = 0 ],
                     [ o1 EXCEPT !.chunked = @ + 1 ], exhausted, last)

\* lines 437-466: POST from a returned generateWithFallback to the next
\* await, or to the response
AfterGenerate(q, o, text, exhausted, last) ==
  LET responses == Append(q.responses, text)
      q1 == [ q EXCEPT !.chunkResponse = text, !.usedModel = q.result.model,
                       !.result = NoResult,
                       !.responses = responses ]
  IN  IF ~IsLastChunk(q.i, q.chunks)
      THEN BeginCall([ q1 EXCEPT
                         !.previousSummary = extractSummary(SummaryInput(responses)),
                         !.lastSectionPreview = getLastSectionPreview(text),
                         !.i = NextIndex(q.i) ],
                     o, exhausted, last)
      ELSE [ q |-> [ q1 EXCEPT
                       !.pc = "done",
                       !.response = [ status |-> 200, error |-> "",
                                      tutorial |-> mergeResponses(responses),
                                      videoId |-> q.videoId,
                                      transcriptSource |-> q.transcriptSource,
                                      chunksProcessed |-> Len(q.chunks) ] ],
             o |-> o, exhausted |-> exhausted ]

(***************************************************************************)
(* Transcripts the chunker is run on: a filler letter with sentence marks  *)
(* placed around the window boundaries.                                    *)
(***************************************************************************)
\* the transcript length of the end-to-end scenario
ScenarioLen == 45000

\* the characters a mark of each kind writes from its position on
MarkText(kind) ==
  CASE kind = "S" -> << ".", " ", "A" >>          \* a sentence end
    [] kind = "L" -> << ".", " ", "a" >>          \* no upper-case letter
    [] kind = "Q" -> << "?", "\n", " ", "B" >>    \* a longer whitespace run
    [] kind = "N" -> << "!", NBSP, "A" >>         \* a no-break space

MarkKinds == { "S", "L", "Q", "N" }

\* the filler text: lower-case letters only, in a pattern that does not repeat
\* within a window, so that equal substrings are substrings at equal positions
Filler ==
  [ i \in 1..(ScenarioLen + 1) |->
      LowerCase[((i + (i \div 26) + (i \div 676)) % 26) + 1] ]

\* acc, filler up to each mark (<<0-based position, kind>>, taken in position
\* order, none overlapping another) and the mark's characters
RECURSIVE WriteMarks(_, _)
WriteMarks(acc, marks) ==
  IF marks = {} THEN acc
  ELSE LET m == CHOOSE m \in marks : \A n \in marks : m[1] <= n[1]
       IN  WriteMarks(acc \o SubSeq(Filler, 1, m[1] - Len(acc)) \o MarkText(m[2]),
                      marks \ { m })

\* the text of length len: filler with the marks written in
MkText(len, marks) ==
  LET marked == WriteMarks(<< >>, { m \in marks : m[1] < len })
  IN  SubSeq(marked \o SubSeq(Filler, 1, len - Len(marked)), 1, len)

\* marks around the first tentative boundary (CHUNK_SIZE): far before the
\* region, straddling its start, at its start, in the middle, last full fit,
\* and with the letter just outside the region
FirstMarks ==
  { {} }
  \cup { { << p, k >> } :
           p \in { 100,
                   CHUNK_SIZE - SEARCH_RADIUS - 1,
                   CHUNK_SIZE - SEARCH_RADIUS,
                   CHUNK_SIZE - 1,
                   CHUNK_SIZE + SEARCH_RADIUS - 3,
                   CHUNK_SIZE + SEARCH_RADIUS - 2 },
           k \in MarkKinds }
  \cup { { << CHUNK_SIZE - 100, "S" >>, << CHUNK_SIZE + 100, "L" >> },
         { << CHUNK_SIZE - 100, "S" >>, << CHUNK_SIZE + SEARCH_RADIUS - 2, "L" >> } }

\* marks around the second tentative boundary
SecondMarks ==
  { {},
    { << 2 * CHUNK_SIZE - OVERLAP_SIZE - SEARCH_RADIUS, "S" >> },
    { << 2 * CHUNK_SIZE - OVERLAP_SIZE + SEARCH_RADIUS - 3, "S" >> },
    { << 2 * CHUNK_SIZE - OVERLAP_SIZE - 150, "Q" >>,
      << 2 * CHUNK_SIZE - OVERLAP_SIZE - 50, "L" >> } }

ChunkLengths ==
  { 0, 60, CHUNK_SIZE - 1, CHUNK_SIZE, CHUNK_SIZE + 1,
    2 * CHUNK_SIZE - OVERLAP_SIZE, 2 * CHUNK_SIZE - OVERLAP_SIZE + 1,
    ScenarioLen }

ChunkInputs ==
  { MkText(len, m1 \cup m2) :
      len \in ChunkLengths, m1 \in FirstMarks, m2 \in SecondMarks }

(***************************************************************************)
(* Texts extractSummary is run on                                          *)
(***************************************************************************)
Letters ==
  << "A", "B", "C", "D", "E", "F", "G", "H", "I", "J", "K", "L", "M" >>

NewLine == << "\n" >>

\* the heading marker of a level, followed by a blank; level 0 is a plain line
Marker(level) ==
  IF level = 0 THEN << "t", " " >>
  ELSE [ i \in 1..(level + 1) |-> IF i <= level THEN "#" ELSE " " ]

\* line i of a document: a heading (or plain line) with a title of its own
DocLine(i, level) == Marker(level) \o << Letters[i], "x" >>

\* the positions whose level is varied, the others are level-2 headings
VariedLines == { 1, 10, 11 }

LevelChoices == [ VariedLines -> { 0, 1, 2, 3 } ]

LevelOf(i, choice) == IF i \in VariedLines THEN choice[i] ELSE 2

\* n lines, then pad characters of plain text
HeadedDoc(n, choice, pad) ==
  LET lines == [ i \in 1..n |-> DocLine(i, LevelOf(i, choice)) ]
      body  == SubSeq(Filler, 1, pad)
  IN  IF n = 0 THEN body
      ELSE IF pad = 0 THEN Join(lines, NewLine)
      ELSE Join(lines, NewLine) \o NewLine \o body

SummaryInputs ==
  { HeadedDoc(n, choice, pad) :
      n \in { 0, 1, 9, 10, 11, 12 }, choice \in LevelChoices,
      pad \in { 0, SUMMARY_FALLBACK - 100, SUMMARY_FALLBACK + 100 } }

\* texts for getLastSectionPreview: up to two lines and a body, alone or
\* after a line of filler that puts them at the edge of the last
\* PREVIEW_TAIL characters or beyond it
PreviewInputs ==
  { IF pre = 0 THEN HeadedDoc(n, choice, pad)
    ELSE SubSeq(Filler, 1, pre) \o NewLine \o HeadedDoc(n, choice, pad) :
      pre \in { 0, PREVIEW_TAIL - 10, PREVIEW_TAIL + 100 },
      n \in { 0, 1, 2 }, choice \in LevelChoices,
      pad \in { 0, PREVIEW_FALLBACK - 100, PREVIEW_TAIL - 6, PREVIEW_TAIL + 100 } }

(***************************************************************************)
(* Generated results mergeResponses is run on                              *)
(***************************************************************************)
\* a first result: title, overview, section 1
\*   # T\n\n## Overview\nab\n\n## 1. A\ncd
R_First ==
  << "#", " ", "T", "\n", "\n", "#", "#", " ", "O", "v", "e", "r", "v", "i",
     "e", "w", "\n", "a", "b", "\n", "\n", "#", "#", " ", "1", ".", " ", "A",
     "\n", "c", "d" >>

\* a first result that ends inside a step
\*   # T\n## 1. A\n### S1\ngh
R_FirstStep ==
  << "#", " ", "T", "\n", "#", "#", " ", "1", ".", " ", "A", "\n", "#", "#",
     "#", " ", "S", "1", "\n", "g", "h" >>

\* a continuation that restates section 1
\*   ## 1. A\nce\n\n## 2. B\nef
R_Cont ==
  << "#", "#", " ", "1", ".", " ", "A", "\n", "c", "e", "\n", "\n", "#", "#",
     " ", "2", ".", " ", "B", "\n", "e", "f" >>

\* a continuation that restates a step (level 3)
\*   ### S1\ngi
R_Step ==
  << "#", "#", "#", " ", "S", "1", "\n", "g", "i" >>

\* a final result: restates section 2, closes with the summary
\*   ## 2. B\neg\n\n## Summary\nij
R_Last ==
  << "#", "#", " ", "2", ".", " ", "B", "\n", "e", "g", "\n", "\n", "#", "#",
     " ", "S", "u", "m", "m", "a", "r", "y", "\n", "i", "j" >>

\* a continuation into which title and overview leaked
\*   # T\n\n## Overview\nab\n## 2. B\nkl
R_Leak ==
  << "#", " ", "T", "\n", "\n", "#", "#", " ", "O", "v", "e", "r", "v", "i",
     "e", "w", "\n", "a", "b", "\n", "#", "#", " ", "2", ".", " ", "B", "\n",
     "k", "l" >>

\* a result whose title comes after a section heading
\*   ## 2. B\nab\n# T\ncd
R_TitleLate ==
  << "#", "#", " ", "2", ".", " ", "B", "\n", "a", "b", "\n", "#", " ", "T",
     "\n", "c", "d" >>

\* a result that restates the title only
\*   # T\nst
R_Title ==
  << "#", " ", "T", "\n", "s", "t" >>

\* a result without any heading
\*   mn
R_Plain ==
  << "m", "n" >>

\* a result with a long run of newlines
\*   op\n\n\n\n\nqr\n\n
R_Gaps ==
  << "o", "p", "\n", "\n", "\n", "\n", "\n", "q", "r", "\n", "\n" >>

ResultPool ==
  { R_First, R_FirstStep, R_Cont, R_Step,
    R_Last, R_Leak, R_TitleLate, R_Title,
    R_Plain, R_Gaps }

\* the most results merged at once
MaxResponses == 3

\* the non-empty sequences of at most n results
ResultSeqs(n) == UNION { [ 1..k -> ResultPool ] : k \in 1..n }

\* results that are the empty text; POST passes one result per chunk and
\* there is at least one chunk, so no sequence is empty
EdgeSeqs ==
  { << << >> >>, << << >>, << >> >>, << R_Plain, << >> >>,
    << << >>, R_Cont >>, << R_Cont, << >>, R_Cont >> }

MergeInputs == ResultSeqs(MaxResponses) \cup EdgeSeqs

(***************************************************************************)
(* Requests, library answers and backend answers the handler is run on     *)
(***************************************************************************)
UrlWatch ==
  << "h", "t", "t", "p", "s", ":", "/", "/", "w", "w", "w", ".", "y", "o",
     "u", "t", "u", "b", "e", ".", "c", "o", "m", "/", "w", "a", "t", "c",
     "h", "?", "v", "=", "d", "Q", "w", "4", "w", "9", "W", "g", "X", "c",
     "Q", "&", "t", "=", "4", "2" >>

UrlShort ==
  << "h", "t", "t", "p", "s", ":", "/", "/", "y", "o", "u", "t", "u", ".",
     "b", "e", "/", "a", "b", "c", "_", "-", "1", "2", "3", "?", "s", "i",
     "=", "x" >>

UrlEmbed ==
  << "y", "o", "u", "t", "u", "b", "e", ".", "c", "o", "m", "/", "e", "m",
     "b", "e", "d", "/", "x", "y", "z", "#", "t" >>

UrlBareId ==
  << "d", "Q", "w", "4", "w", "9", "W", "g", "X", "c", "Q" >>

UrlNoId ==
  << "h", "t", "t", "p", "s", ":", "/", "/", "y", "o", "u", "t", "u", ".",
     "b", "e", "/" >>

UrlOther ==
  << "h", "t", "t", "p", "s", ":", "/", "/", "e", "x", "a", "m", "p", "l",
     "e", ".", "c", "o", "m", "/", "w", "a", "t", "c", "h" >>

\* the url field of the request body; Null is a body without one, or with
\* a falsy one
Urls == { Null, UrlWatch, UrlShort, UrlEmbed, UrlBareId, UrlNoId, UrlOther }

\* requests POST cannot read a url from: request.json() rejects (the body is
\* not JSON), the body is null (line 319 cannot destructure it), the url is
\* truthy and not a string (url.match of line 329 is not a function)
JsonRejects == << "json() rejects" >>

BodyNull == << "body null" >>

UrlNotString == << "url 123" >>

Unreadable == { JsonRejects, BodyNull, UrlNotString }

\* what a request comes with
Requests == Urls \cup Unreadable

Spaces(n) == [ k \in 1..n |-> " " ]

\* transcripts at the acceptance thresholds of the two strategies
Text50 == SubSeq(Filler, 1, MIN_TRANSCRIPT)

Text51 == SubSeq(Filler, 1, MIN_TRANSCRIPT + 1)

Padded49 == Spaces(2) \o SubSeq(Filler, 1, MIN_TRANSCRIPT - 1) \o Spaces(2)

Padded50 == Spaces(2) \o Text50 \o << "\n" >>

Threw == [ kind |-> "throw", text |-> Null ]

Nothing == [ kind |-> "none", text |-> Null ]

Got(text) == [ kind |-> "text", text |-> text ]

\* getSubtitles answers the same for every language
Always(answer) == [ lang \in Range(Langs) |-> answer ]

\* what the two libraries answer for a video
LibraryAnswers ==
  { [ s1 |-> a, s2 |-> b ] :
      a \in { Threw, Nothing, Got(Text50), Got(Text51) },
      b \in { Always(Threw), Always(Nothing), Always(Got(Padded49)),
              [ Always(Nothing) EXCEPT !["en"] = Got(Text50) ],
              [ Always(Threw) EXCEPT !["en"] = Got(Padded49),
                                     !["en-GB"] = Got(Padded50),
                                     !["auto"] = Got(Text51) ],
              [ Always(Nothing) EXCEPT !["auto"] = Got(Text51) ] } }

\* what the backend generates
BackendTexts == { R_First, R_Plain }

\* the marks that put the two boundaries of a ScenarioLen transcript at
\* their extremes: none, the earliest and the latest snap of the first
\* boundary, each with the earliest and the latest snap of the second
EarlyFirst == CHUNK_SIZE - SEARCH_RADIUS

LateFirst == CHUNK_SIZE + SEARCH_RADIUS - 3

SecondRegion(first) == NextStart(first + 2) + CHUNK_SIZE

ScenarioMarks ==
  { {},
    { << EarlyFirst, "S" >> },
    { << LateFirst, "S" >> },
    { << EarlyFirst, "S" >>, << SecondRegion(EarlyFirst) - SEARCH_RADIUS, "S" >> },
    { << EarlyFirst, "S" >>, << SecondRegion(EarlyFirst) + SEARCH_RADIUS - 3, "S" >> },
    { << LateFirst, "S" >>, << SecondRegion(LateFirst) - SEARCH_RADIUS, "S" >> },
    { << LateFirst, "S" >>, << SecondRegion(LateFirst) + SEARCH_RADIUS - 3, "S" >> },
    { << CHUNK_SIZE - SEARCH_RADIUS, "Q" >>,
      << 2 * CHUNK_SIZE - OVERLAP_SIZE + SEARCH_RADIUS - 3, "S" >> } }

ScenarioAnswers ==
  { [ s1 |-> Got(MkText(ScenarioLen, marks)), s2 |-> Always(Nothing) ] :
      marks \in ScenarioMarks }
  \cup { [ s1 |-> Got(Text51), s2 |-> Always(Nothing) ] }

ScenarioTexts == { R_Cont, R_Plain }

ScenarioErrors ==
  { [ status |-> 429, message |-> Null ],
    [ status |-> 500, message |-> OtherMessage ] }

(***************************************************************************)
(* State                                                                   *)
(***************************************************************************)
VARIABLES
  ckPc,          \* position in chunkTranscript: "call", "loop", "returned"
  ckTranscript,  \* its argument
  ckStart,       \* startIndex
  ckChunks,      \* chunks
  sumPc,         \* "call"; "returned" from extractSummary, "previewed"
                 \* from getLastSectionPreview
  sumContent,    \* its argument
  sumResult,     \* its return value
  mrPc,          \* position in mergeResponses: "call", "loop", "returned",
                 \* "threw" (a TypeError left the function)
  mrResponses,   \* its argument
  mrI,           \* the loop index i
  mrMerged,      \* merged, and the return value at the end
  modelQuotaExhausted,  \* the process-wide set of line 19
  apiKeySet,     \* process.env.GEMINI_API_KEY is set
  req,           \* per handler slot: the locals of POST and of the generate
                 \* call it awaits
  obs,           \* per handler slot: the calls the request has made
  lastCall,      \* the generate call that finished last
  selPc,         \* position of a generate call: "call" before the
                 \* selection, "returned" after it, at the await of line 51,
                 \* "responding" at the await of line 52
  selFrom,       \* modelQuotaExhausted as the call began
  selModel,      \* the model it returned
  ftPc,          \* position in fetchTranscriptWithFallback: "strategy1",
                 \* "getInfo", "getTranscript", "strategy2", "end",
                 \* "returned", "threw"
  ftS1,          \* what the InnerTube library answers
  ftS2,          \* what getSubtitles answers, per language
  ftLang,        \* index in langs of the language asked for next
  ftErrors,      \* errors
  ftTried,       \* the library calls made so far, in order
  ftResult,      \* the return value
  ptPc,          \* position in building a continuation prompt: "call",
                 \* "built"
  ptResponses,   \* responses, the results of the chunks before
  ptChunks,      \* chunks
  ptPrompt       \* the prompt

ckVars == << ckPc, ckTranscript, ckStart, ckChunks >>

sumVars == << sumPc, sumContent, sumResult >>

mrVars == << mrPc, mrResponses, mrI, mrMerged >>

plVars == << modelQuotaExhausted, apiKeySet, req, obs, lastCall >>

selVars == << selPc, selFrom, selModel >>

ftVars == << ftPc, ftS1, ftS2, ftLang, ftErrors, ftTried, ftResult >>

ptVars == << ptPc, ptResponses, ptChunks, ptPrompt >>

vars == << ckVars, sumVars, mrVars, plVars, selVars, ftVars, ptVars >>

\* the most requests the server handles at a time
MaxSlots == 2

Slots == 1..MaxSlots

\* no call of chunkTranscript is being followed
ChunkIdle ==
  /\ ckPc = "idle"
  /\ ckTranscript = << >>
  /\ ckStart = 0
  /\ ckChunks = << >>

\* no call of extractSummary is being followed
SummaryIdle ==
  /\ sumPc = "idle"
  /\ sumContent = << >>
  /\ sumResult = << >>

\* no call of mergeResponses is being followed
MergeIdle ==
  /\ mrPc = "idle"
  /\ mrResponses = << >>
  /\ mrI = 0
  /\ mrMerged = << >>

\* no call of getAvailableModel is being followed on its own
SelectIdle ==
  /\ selPc = "idle"
  /\ selFrom = {}
  /\ selModel = ""

\* no request is being followed
\* no call of fetchTranscriptWithFallback is being followed on its own
FetchIdle ==
  /\ ftPc = "idle"
  /\ ftS1 = Nothing
  /\ ftS2 = Always(Nothing)
  /\ ftLang = 0
  /\ ftErrors = << >>
  /\ ftTried = << >>
  /\ ftResult = NoTranscript

\* no prompt is being built on its own
PromptIdle ==
  /\ ptPc = "idle"
  /\ ptResponses = << >>
  /\ ptChunks = << >>
  /\ ptPrompt = << >>

\* the server handles no request
ServerOff ==
  /\ modelQuotaExhausted = {}
  /\ apiKeySet = FALSE
  /\ req = [ r \in Slots |-> OffReq ]
  /\ obs = [ r \in Slots |-> NoObs ]
  /\ lastCall = NoCall

HandlerIdle ==
  /\ SelectIdle
  /\ FetchIdle
  /\ PromptIdle
  /\ ServerOff

(***************************************************************************)
(* chunkTranscript, one loop iteration per step                            *)
(***************************************************************************)
ChunkInit ==
  /\ ckPc = "call"
  /\ ckTranscript \in ChunkInputs
  /\ ckStart = 0
  /\ ckChunks = << >>
  /\ SummaryIdle
  /\ MergeIdle
  /\ HandlerIdle

\* lines 201-206
ChunkEnter ==
  /\ ckPc = "call"
  /\ IF FitsOneChunk(ckTranscript)
     THEN ckPc' = "returned" /\ ckChunks' = << ckTranscript >>
     ELSE ckPc' = "loop" /\ ckChunks' = << >>
  /\ ckStart' = 0
  /\ UNCHANGED << ckTranscript, sumVars, mrVars, plVars, selVars, ftVars, ptVars >>

\* lines 208-237, one iteration
ChunkIterate ==
  /\ ckPc = "loop"
  /\ IF ~(ckStart < Len(ckTranscript))
     THEN ckPc' = "returned" /\ UNCHANGED << ckStart, ckChunks >>
     ELSE LET endIndex == WindowEnd(ckTranscript, ckStart)
          IN  /\ ckChunks' = Append(ckChunks,
                                    substring(ckTranscript, ckStart, endIndex))
              /\ ckStart' = NextStart(endIndex)
              /\ ckPc' = IF LoopBreaks(ckTranscript, NextStart(endIndex))
                         THEN "returned" ELSE "loop"
  /\ UNCHANGED << ckTranscript, sumVars, mrVars, plVars, selVars, ftVars, ptVars >>

ChunkNext == ChunkEnter \/ ChunkIterate

SpecChunk == ChunkInit /\ [][ChunkNext]_vars

(***************************************************************************)
(* extractSummary or getLastSectionPreview, called once                    *)
(***************************************************************************)
SummaryInit ==
  /\ sumPc = "call"
  /\ sumContent \in SummaryInputs \cup PreviewInputs
  /\ sumResult = << >>
  /\ ChunkIdle
  /\ MergeIdle
  /\ HandlerIdle

\* lines 245-261
SummaryCall ==
  /\ sumPc = "call"
  /\ sumResult' = extractSummary(sumContent)
  /\ sumPc' = "returned"
  /\ UNCHANGED << sumContent, ckVars, mrVars, plVars, selVars, ftVars, ptVars >>

\* lines 266-277
PreviewCall ==
  /\ sumPc = "call"
  /\ sumResult' = getLastSectionPreview(sumContent)
  /\ sumPc' = "previewed"
  /\ UNCHANGED << sumContent, ckVars, mrVars, plVars, selVars, ftVars, ptVars >>

SummaryNext == SummaryCall \/ PreviewCall

SpecSummary == SummaryInit /\ [][SummaryNext]_vars

(***************************************************************************)
(* mergeResponses, one loop iteration per step                             *)
(***************************************************************************)
MergeInit ==
  /\ mrPc = "call"
  /\ mrResponses \in MergeInputs
  /\ mrI = 0
  /\ mrMerged = << >>
  /\ ChunkIdle
  /\ SummaryIdle
  /\ HandlerIdle

\* lines 283-289
MergeEnter ==
  /\ mrPc = "call"
  /\ mrMerged' = ElementAt(mrResponses, 0)
  /\ IF IsSingle(mrResponses)
     THEN mrPc' = "returned" /\ mrI' = 0
     ELSE mrPc' = "loop" /\ mrI' = 1
  /\ UNCHANGED << mrResponses, ckVars, sumVars, plVars, selVars, ftVars, ptVars >>

\* lines 289-314: one iteration, or the clean-up and return after the last
MergeIterate ==
  /\ mrPc = "loop"
  /\ IF LoopRuns(mrI, mrResponses)
     THEN IF ElementAt(mrResponses, mrI) = Undefined
          THEN mrPc' = "threw" /\ UNCHANGED << mrI, mrMerged >>
          ELSE /\ mrMerged' = MergeStep(mrMerged, ElementAt(mrResponses, mrI))
               /\ mrI' = mrI + 1
               /\ mrPc' = "loop"
     ELSE IF mrMerged = Undefined
          THEN mrPc' = "threw" /\ UNCHANGED << mrI, mrMerged >>
          ELSE /\ mrMerged' = collapseNewlines(mrMerged)
               /\ mrPc' = "returned"
               /\ UNCHANGED mrI
  /\ UNCHANGED << mrResponses, ckVars, sumVars, plVars, selVars, ftVars, ptVars >>

MergeNext == MergeEnter \/ MergeIterate

SpecMerge == MergeInit /\ [][MergeNext]_vars

(***************************************************************************)
(* POST, one step per stretch of the handler between two awaits            *)
(***************************************************************************)
\* the records after a step of request r that leaves it the record o and
\* the exhausted set exhausted: a change of the set is noted for the other
\* requests that are inside a generate call
Noted(r, o, exhausted) ==
  [ r2 \in Slots |->
      IF r2 = r THEN o
      ELSE IF exhausted # modelQuotaExhausted /\ InCall(req[r2])
      THEN [ obs[r2] EXCEPT !.disturbed = TRUE ]
      ELSE obs[r2] ]

\* lines 317-347 and 469-475: the request arrives; the checks before the
\* transcript fetch, and the catch of POST for what is thrown on the way
Receive(r, url) ==
  /\ req[r].pc = "idle"
  /\ LET videoId == IF url = Null THEN Null ELSE extractVideoId(url)
     IN  req' = [ req EXCEPT ![r] =
                    IF url \in Unreadable THEN Ended(IdleReq, 500, ErrFailed)
                    ELSE IF url = Null THEN Ended(IdleReq, 400, ErrUrlRequired)
                    ELSE IF videoId = Null THEN Ended(IdleReq, 400, ErrInvalidUrl)
                    ELSE IF NoApiKey(apiKeySet)
                    THEN Ended([ IdleReq EXCEPT !.videoId = videoId ], 500, ErrNoApiKey)
                    ELSE [ IdleReq EXCEPT !.pc = "fetching", !.videoId = videoId ] ]
  /\ obs' = [ obs EXCEPT ![r].url = url ]
  /\ UNCHANGED << modelQuotaExhausted, apiKeySet, lastCall, ckVars, sumVars, mrVars, selVars, ftVars, ptVars >>

\* lines 351-437: fetchTranscriptWithFallback settles with the answers s1
\* and s2 of the two libraries; chunking and the first generate call
FetchDone(r, s1, s2) ==
  /\ req[r].pc = "fetching"
  /\ LET out == AfterFetch(req[r], obs[r], fetchTranscriptWithFallback(s1, s2),
                           modelQuotaExhausted, lastCall)
     IN  /\ req' = [ req EXCEPT ![r] = out.q ]
         /\ obs' = Noted(r, out.o, out.exhausted)
         /\ modelQuotaExhausted' = out.exhausted
  /\ UNCHANGED << apiKeySet, lastCall, ckVars, sumVars, mrVars, selVars, ftVars, ptVars >>

\* lines 50-52: model.generateContent settles with a result that holds
\* text; generateWithFallback goes on to the await of result.response
GenerateContent(r, text) ==
  /\ req[r].pc = "generating"
  /\ req' = [ req EXCEPT ![r].pc = "responding", ![r].generated = text ]
  /\ UNCHANGED << modelQuotaExhausted, apiKeySet, obs, lastCall, ckVars, sumVars, mrVars, selVars, ftVars, ptVars >>

\* lines 52-53: result.response is there and generateWithFallback returns
\* its text and modelName; POST, which awaits it, goes on in a later turn
GenerateOk(r) ==
  /\ req[r].pc = "responding"
  /\ req' = [ req EXCEPT ![r].pc = "returned",
                         ![r].generated = Null,
                         ![r].result = [ text |-> req[r].generated,
                                         model |-> req[r].modelName ] ]
  /\ obs' = [ obs EXCEPT ![r] = CallEnded(obs[r], "ok") ]
  /\ lastCall' = [ outcome |-> "ok", start |-> obs[r].callStart,
                   attempts |-> obs[r].attempts ]
  /\ UNCHANGED << modelQuotaExhausted, apiKeySet, ckVars, sumVars, mrVars, selVars, ftVars, ptVars >>

\* lines 437-466: POST takes the result of generateWithFallback and goes on
\* to the next generate call, or to the response
Continue(r) ==
  /\ req[r].pc = "returned"
  /\ LET out == AfterGenerate(req[r], obs[r], req[r].result.text,
                              modelQuotaExhausted, lastCall)
     IN  /\ req' = [ req EXCEPT ![r] = out.q ]
         /\ obs' = Noted(r, out.o, out.exhausted)
         /\ modelQuotaExhausted' = out.exhausted
  /\ UNCHANGED << apiKeySet, lastCall, ckVars, sumVars, mrVars, selVars, ftVars, ptVars >>

\* lines 54-66: the try of lines 50-53 raises err, at the backend call or
\* at its response; generateWithFallback tries the next model, or ends by
\* throwing (line 44 of the nested call, line 65) and POST, which awaits it,
\* goes on in a later turn
GenerateFail(r, err) ==
  /\ InCall(req[r])
  /\ IF IsQuotaError(err)
     THEN LET marked == modelQuotaExhausted \cup { req[r].modelName }
              e      == EnterGenerate(marked, req[r].retryCount + 1)
          IN  IF e.threw
              THEN /\ req' = [ req EXCEPT ![r].pc = "raised",
                                          ![r].generated = Null ]
                   /\ obs' = Noted(r, CallEnded([ obs[r] EXCEPT
                                                   !.raised = err,
                                                   !.marked = Append(@, req[r].modelName) ],
                                                "exhausted"), marked)
                   /\ modelQuotaExhausted' = marked
                   /\ lastCall' = [ outcome |-> "exhausted",
                                    start |-> obs[r].callStart,
                                    attempts |-> obs[r].attempts ]
              ELSE /\ req' = [ req EXCEPT ![r].pc = "generating",
                                          ![r].generated = Null,
                                          ![r].retryCount = @ + 1,
                                          ![r].model = e.model,
                                          ![r].modelName = e.modelName ]
                   /\ obs' = Noted(r, [ obs[r] EXCEPT !.attempts = Append(@, e.model),
                                                      !.marked = Append(@, req[r].modelName),
                                                      !.raised = err ],
                                   e.exhausted)
                   /\ modelQuotaExhausted' = e.exhausted
                   /\ UNCHANGED lastCall
     ELSE /\ req' = [ req EXCEPT ![r].pc = "raised", ![r].generated = Null ]
          /\ obs' = [ obs EXCEPT ![r] = CallEnded([ obs[r] EXCEPT !.raised = err ],
                                                  "error") ]
          /\ lastCall' = [ outcome |-> "error", start |-> obs[r].callStart,
                           attempts |-> obs[r].attempts ]
          /\ UNCHANGED modelQuotaExhausted
  /\ UNCHANGED << apiKeySet, ckVars, sumVars, mrVars, selVars, ftVars, ptVars >>

\* lines 469-475: the catch of POST takes what generateWithFallback threw
Fatal(r) ==
  /\ req[r].pc = "raised"
  /\ req' = [ req EXCEPT ![r] = Ended(req[r], 500, ErrFailed) ]
  /\ UNCHANGED << modelQuotaExhausted, apiKeySet, obs, lastCall, ckVars, sumVars, mrVars, selVars, ftVars, ptVars >>

\* the response is sent; the slot takes the next request
Close(r) ==
  /\ req[r].pc = "done"
  /\ req' = [ req EXCEPT ![r] = IdleReq ]
  /\ obs' = [ obs EXCEPT ![r] = NoObs ]
  /\ UNCHANGED << modelQuotaExhausted, apiKeySet, lastCall, ckVars, sumVars, mrVars, selVars, ftVars, ptVars >>

\* the server after start-up, handling requests in the slots of active
HandlerInit(active) ==
  /\ modelQuotaExhausted = {}
  /\ apiKeySet \in BOOLEAN
  /\ req = [ r \in Slots |-> IF r \in active THEN IdleReq ELSE OffReq ]
  /\ obs = [ r \in Slots |-> NoObs ]
  /\ lastCall = NoCall
  /\ ChunkIdle
  /\ SummaryIdle
  /\ MergeIdle
  /\ SelectIdle
  /\ FetchIdle
  /\ PromptIdle

HandlerNext ==
  \E r \in Slots :
    \/ \E url \in Requests : Receive(r, url)
    \/ \E a \in LibraryAnswers : FetchDone(r, a.s1, a.s2)
    \/ \E text \in BackendTexts : GenerateContent(r, text)
    \/ GenerateOk(r)
    \/ Continue(r)
    \/ \E err \in BackendErrors : GenerateFail(r, err)
    \/ Fatal(r)
    \/ Close(r)

\* requests handled one after the other
SeqInit == HandlerInit({ 1 })

SpecSeq == SeqInit /\ [][HandlerNext]_vars

\* one request per slot, handled concurrently, each for a video with a short
\* transcript
ConcurrentAnswers ==
  { [ s1 |-> Got(Text51), s2 |-> Always(Nothing) ],
    [ s1 |-> Threw, s2 |-> Always(Nothing) ] }

ConcurrentErrors ==
  { [ status |-> 429, message |-> Null ],
    [ status |-> 500, message |-> OtherMessage ] }

Init ==
  /\ HandlerInit(Slots)
  /\ apiKeySet

Next ==
  \E r \in Slots :
    \/ Receive(r, UrlBareId)
    \/ \E a \in ConcurrentAnswers : FetchDone(r, a.s1, a.s2)
    \/ GenerateContent(r, R_Plain)
    \/ GenerateOk(r)
    \/ Continue(r)
    \/ \E err \in ConcurrentErrors : GenerateFail(r, err)
    \/ Fatal(r)

Spec == Init /\ [][Next]_vars

\* one request for a video with a transcript of ScenarioLen characters, or
\* with a short one
ScenarioInit ==
  /\ HandlerInit({ 1 })
  /\ apiKeySet

ScenarioNext ==
  \E r \in Slots :
    \/ Receive(r, UrlWatch)
    \/ \E a \in ScenarioAnswers : FetchDone(r, a.s1, a.s2)
    \/ \E text \in ScenarioTexts : GenerateContent(r, text)
    \/ GenerateOk(r)
    \/ Continue(r)
    \/ \E err \in ScenarioErrors : GenerateFail(r, err)
    \/ Fatal(r)

SpecScenario == ScenarioInit /\ [][ScenarioNext]_vars

(***************************************************************************)
(* The text functions, each called once on a text or on results            *)
(***************************************************************************)
TextInit == SummaryInit \/ MergeInit

TextNext == SummaryNext \/ MergeNext

SpecText == TextInit /\ [][TextNext]_vars

(***************************************************************************)
(* getAvailableModel on every exhausted set, and the mark of line 61        *)
(***************************************************************************)
SelectInit ==
  /\ modelQuotaExhausted \in SUBSET Roster
  /\ selPc = "call"
  /\ selFrom = {}
  /\ selModel = ""
  /\ apiKeySet = FALSE
  /\ req = [ r \in Slots |-> OffReq ]
  /\ obs = [ r \in Slots |-> NoObs ]
  /\ lastCall = NoCall
  /\ ChunkIdle
  /\ SummaryIdle
  /\ MergeIdle
  /\ FetchIdle
  /\ PromptIdle

\* lines 24-35
SelectCall ==
  /\ selPc = "call"
  /\ selFrom' = modelQuotaExhausted
  /\ selModel' = getAvailableModel(modelQuotaExhausted).model
  /\ modelQuotaExhausted' = getAvailableModel(modelQuotaExhausted).exhausted
  /\ selPc' = "returned"
  /\ UNCHANGED << apiKeySet, req, obs, lastCall, ckVars, sumVars, mrVars, ftVars, ptVars >>

\* lines 51-52: model.generateContent settles with a result; the call goes
\* on to the await of result.response
SelectContent ==
  /\ selPc = "returned"
  /\ selPc' = "responding"
  /\ UNCHANGED << modelQuotaExhausted, selFrom, selModel, apiKeySet, req, obs,
                  lastCall, ckVars, sumVars, mrVars, ftVars, ptVars >>

\* lines 54-62: the attempt on the model failed with a quota signal, at
\* either await of the try; the model is marked and the retry selects again
SelectMark ==
  /\ selPc \in { "returned", "responding" }
  /\ modelQuotaExhausted' = modelQuotaExhausted \cup { selModel }
  /\ selPc' = "call"
  /\ UNCHANGED << selFrom, selModel, apiKeySet, req, obs, lastCall,
                  ckVars, sumVars, mrVars, ftVars, ptVars >>

\* lines 52-53: result.response is there and the attempt has succeeded,
\* nothing is marked; the next generate call selects again
SelectAgain ==
  /\ selPc = "responding"
  /\ selPc' = "call"
  /\ UNCHANGED << modelQuotaExhausted, selFrom, selModel, apiKeySet, req, obs,
                  lastCall, ckVars, sumVars, mrVars, ftVars, ptVars >>

SelectNext == SelectCall \/ SelectContent \/ SelectMark \/ SelectAgain

SpecSelect == SelectInit /\ [][SelectNext]_vars

(***************************************************************************)
(* Properties of chunkTranscript                                           *)
(***************************************************************************)
\* 0-based index in the transcript at which chunk i starts when every chunk
\* starts OVERLAP_SIZE characters before the end of the one before
RECURSIVE ChunkOffset(_, _)
ChunkOffset(chunks, i) ==
  IF i = 1 THEN 0
  ELSE ChunkOffset(chunks, i - 1) + Len(chunks[i - 1]) - OVERLAP_SIZE

ChunksCover(transcript, chunks) ==
  /\ chunks # << >>
  /\ \A i \in 1..Len(chunks) :
       /\ chunks[i] = SubSeq(transcript, ChunkOffset(chunks, i) + 1,
                             ChunkOffset(chunks, i) + Len(chunks[i]))
       /\ i < Len(chunks) =>
            /\ Len(chunks[i]) >= OVERLAP_SIZE
            /\ Len(chunks[i + 1]) >= OVERLAP_SIZE
            /\ sliceLast(chunks[i], OVERLAP_SIZE)
                 = SubSeq(chunks[i + 1], 1, OVERLAP_SIZE)
  /\ ChunkOffset(chunks, Len(chunks)) + Len(chunks[Len(chunks)])
       = Len(transcript)

\* C3: for every text longer than CHUNK_SIZE the chunks cover the text without
\* gaps: the first starts at index 0, each next one starts exactly OVERLAP_SIZE
\* characters before the end of the previous one (so the two share those
\* characters), and the last one ends at the end of the text.
C3_ChunksCoverText ==
  (ckPc = "returned" /\ Len(ckTranscript) > CHUNK_SIZE)
    => ChunksCover(ckTranscript, ckChunks)

\* three chunks, both boundaries moved by the sentence search
C3_Witness ==
  /\ ckPc = "returned"
  /\ Len(ckTranscript) > CHUNK_SIZE
  /\ Len(ckChunks) = 3
  /\ Len(ckChunks[1]) # CHUNK_SIZE
  /\ Len(ckChunks[2]) # CHUNK_SIZE

\* the most iterations the loop can make on a text of length len: every
\* iteration advances startIndex by at least this stride
MinStride == CHUNK_SIZE - SEARCH_RADIUS - OVERLAP_SIZE

MaxIterations(len) == (len \div MinStride) + 1

\* C8: chunkTranscript terminates on every input, text without any sentence
\* punctuation included: every loop iteration moves startIndex strictly
\* forward, every iteration pushes one chunk or returns, and the number of
\* chunks pushed never exceeds
\* len(text) / (CHUNK_SIZE - SEARCH_RADIUS - OVERLAP_SIZE) + 1.
C8_ChunkingTerminates ==
  /\ [][ckPc = "loop" =>
          /\ ckPc' = "returned" \/ Len(ckChunks') = Len(ckChunks) + 1
          /\ ckChunks' # ckChunks => ckStart' > ckStart]_vars
  /\ [](Len(ckChunks) <= MaxIterations(Len(ckTranscript)))

\* the loop has returned three chunks of a text without any sentence mark
C8_Witness ==
  /\ ckPc = "returned"
  /\ Len(ckChunks) = 3
  /\ \A i \in 1..Len(ckTranscript) : ~IsSentenceEnd(ckTranscript[i])

\* C10: chunkTranscript returns the one-element sequence [text] whenever
\* len(text) <= CHUNK_SIZE, len(text) = CHUNK_SIZE included.
C10_ShortTextIsOneChunk ==
  (ckPc = "returned" /\ Len(ckTranscript) <= CHUNK_SIZE)
    => ckChunks = << ckTranscript >>

\* returned for a text of exactly CHUNK_SIZE characters
C10_Witness ==
  /\ ckPc = "returned"
  /\ Len(ckTranscript) = CHUNK_SIZE
  /\ ckChunks = << ckTranscript >>

(***************************************************************************)
(* Properties of extractSummary                                            *)
(***************************************************************************)
\* the lines of s, split at "\n"
RECURSIVE LinesFrom(_, _)
LinesFrom(s, from) ==
  LET e == RunEnd(s, from, { "\n" })
  IN  IF e >= Len(s) THEN << SubSeq(s, from, e) >>
      ELSE << SubSeq(s, from, e) >> \o LinesFrom(s, e + 2)

LinesOf(s) == LinesFrom(s, 1)

\* the level of a heading line (its number of "#", which a blank and a title
\* follow), 0 for any other line
HeadingLevel(line) ==
  LET n == HashRun(line, 1)
  IN  IF /\ n >= 1
         /\ Len(line) >= n + 2
         /\ line[n + 1] = " "
         /\ line[n + 2] \notin WhiteSpace
      THEN n ELSE 0

\* the heading lines of s of level 1..maxLevel, in document order
HeadingLines(s, maxLevel) ==
  LET IsHeading(line) == HeadingLevel(line) \in 1..maxLevel
  IN  SelectSeq(LinesOf(s), IsHeading)

TitleOf(line) == SubSeq(line, HashRun(line, 1) + 2, Len(line))

\* the last n characters of s
LastChars(s, n) == SubSeq(s, IF Len(s) > n THEN Len(s) - n + 1 ELSE 1, Len(s))

\* the listing of the first 10 headings of level 1..maxLevel, markers stripped
Listing(s, maxLevel) ==
  LET hs == HeadingLines(s, maxLevel)
  IN  SectionsCovered
        \o Join([ i \in 1..Min(10, Len(hs)) |-> TitleOf(hs[i]) ], CommaSpace)

\* extractSummary did what the claim says, headings being those of level
\* 1..maxLevel
SummaryAsClaimed(maxLevel) ==
  sumPc = "returned" =>
    /\ Len(HeadingLines(sumContent, maxLevel)) >= 10
         => sumResult = Listing(sumContent, maxLevel)
    /\ Len(HeadingLines(sumContent, maxLevel)) = 0
         => sumResult = LastChars(sumContent, 500)

\* line occurs among the lines of s
HasLine(s, line) == \E i \in 1..Len(LinesOf(s)) : LinesOf(s)[i] = line

\* merge([a, b]) is shorter than a, the separator and b together whenever b
\* begins with a heading line of one of the levels that is also a line of a
MergeShortens(levels) ==
  (/\ mrPc = "returned"
   /\ Len(mrResponses) = 2
   /\ HeadingLevel(LinesOf(mrResponses[2])[1]) \in levels
   /\ HasLine(mrResponses[1], LinesOf(mrResponses[2])[1]))
    => Len(mrMerged) < Len(mrResponses[1]) + Len(mrResponses[2]) + 2

\* C4 as stated: merge([a, b]), where b begins by repeating a heading line
\* (of any level) present in a, is strictly shorter than
\* len(a) + len(b) + 2.
C4_AnyLevel == MergeShortens(1..6)

\* C4 amended: the same for a level-2 heading ("## " line); a repeated
\* heading of another level is not looked for and nothing is removed.
C4_LevelTwo == MergeShortens({ 2 })

\* a two-result merge whose second result restates a section of the first
C4_Witness ==
  /\ mrPc = "returned"
  /\ mrResponses = << R_First, R_Cont >>
  /\ Len(mrMerged) < Len(R_First) + Len(R_Cont) + 2

\* number of "# " title lines of s
TitleCount(s) ==
  LET IsTitle(line) == Len(line) >= 2 /\ line[1] = "#" /\ line[2] = " "
  IN  Len(SelectSeq(LinesOf(s), IsTitle))

SummaryHeading ==
  << "#", "#", " ", "S", "u", "m", "m", "a", "r", "y" >>

\* number of "## Summary" heading lines of s
SummaryCount(s) ==
  LET IsSummary(line) == OccursAt(line, SummaryHeading, 0)
  IN  Len(SelectSeq(LinesOf(s), IsSummary))

EndsWith(s, t) == Len(t) <= Len(s) /\ SubSeq(s, Len(s) - Len(t) + 1, Len(s)) = t

\* only the first result has a title line, only the last a summary heading
TitleFirstSummaryLast(rs) ==
  /\ TitleCount(rs[1]) = 1
  /\ \A i \in 2..Len(rs) : TitleCount(rs[i]) = 0
  /\ SummaryCount(rs[Len(rs)]) = 1
  /\ \A i \in 1..(Len(rs) - 1) : SummaryCount(rs[i]) = 0

\* one title, one summary section, and the document ends with the last result
\* (its newline runs collapsed like all others)
OneTitleOneSummary ==
  /\ TitleCount(mrMerged) = 1
  /\ SummaryCount(mrMerged) = 1
  /\ EndsWith(mrMerged, collapseNewlines(mrResponses[Len(mrResponses)]))

\* C6 as stated: when only the first result contains a "# " title line and
\* only the last a "## Summary" heading, the merged document contains
\* exactly one title and exactly one "## Summary" section, which lies after
\* the content of every earlier result.
C6_TitleAnywhere ==
  (mrPc = "returned" /\ TitleFirstSummaryLast(mrResponses))
    => OneTitleOneSummary

\* C6 amended: the same, provided the first result begins with its title
\* line; a title that comes after a heading which a later result restates
\* is cut away with the end of the first result.
C6_TitleLeads ==
  (/\ mrPc = "returned"
   /\ TitleFirstSummaryLast(mrResponses)
   /\ OccursAt(mrResponses[1], << "#", " " >>, 0))
    => OneTitleOneSummary

\* three results merged, both later ones having trimmed the text before them
C6_Witness ==
  /\ mrPc = "returned"
  /\ mrResponses = << R_First, R_Cont, R_Last >>
  /\ OneTitleOneSummary
  /\ Len(mrMerged) < Len(R_First) + Len(R_Cont) + Len(R_Last)

(***************************************************************************)
(* Properties of the model fallback                                        *)
(***************************************************************************)
\* a generate call makes one attempt per retry and never more than the
\* roster has models; it ends with the terminal error exactly when
\* maxRetries attempts in a row failed with a quota signal, and the handler
\* that catches the error answers with 500
FiveFailuresAreTerminal ==
  \A r \in Slots :
    /\ InCall(req[r]) =>
          /\ Len(obs[r].attempts) = req[r].retryCount + 1
          /\ Len(obs[r].attempts) <= maxRetries
    /\ obs[r].lastOutcome = "exhausted" =>
          /\ Len(obs[r].lastAttempts) = maxRetries
          /\ req[r].pc \in { "raised", "done" }
          /\ req[r].pc = "done" => req[r].response.status = 500

\* r has just entered a generate call, and the generate call that finished
\* before it ended with the terminal error
FollowsTerminal(r) ==
  /\ req[r].pc = "generating"
  /\ req[r].retryCount = 0
  /\ obs[r].prev.outcome = "exhausted"

\* the call found every model exhausted, cleared the set and selected the
\* first model of the roster
ResetAndFirst(r) ==
  /\ obs[r].callStart = Roster
  /\ modelQuotaExhausted = {}
  /\ req[r].model = FALLBACK_MODELS[1]
  /\ req[r].modelName = FALLBACK_MODELS[1]

\* C1 as stated: after maxRetries quota failures in a row the call raises
\* the terminal error, and the generate call made after it finds every model
\* exhausted, clears the set and selects the first model, whatever the
\* exhausted set held when the failures began
C1_AnyStartSet ==
  /\ FiveFailuresAreTerminal
  /\ \A r \in Slots : FollowsTerminal(r) => ResetAndFirst(r)

\* C1, amended: the same, when the exhausted set was empty or held the whole
\* roster as the failing call began and requests are handled one at a time
C1_FromEmptyOrFull ==
  /\ FiveFailuresAreTerminal
  /\ \A r \in Slots :
       FollowsTerminal(r) /\ obs[r].prev.start \in { {}, Roster }
         => ResetAndFirst(r)

\* a call that began with an empty set failed on every model of the roster,
\* and the next call is under way on the first model after the reset
C1_Witness ==
  \E r \in Slots :
    /\ FollowsTerminal(r)
    /\ obs[r].prev.start = {}
    /\ obs[r].prev.attempts = FALLBACK_MODELS
    /\ ResetAndFirst(r)

\* C2: a generate call that began with an empty exhausted set and succeeded
\* on its attempt k+1 after k quota failures tried the roster entries
\* 1..k+1 in priority order, returns entry k+1 as its model together with
\* its text, and the handler takes both and goes on without an error
C2_FallbackReportsModel ==
  \A r \in Slots :
    obs[r].lastOutcome = "ok" /\ obs[r].lastStart = {} =>
      LET n == Len(obs[r].lastAttempts)
      IN  /\ n \in 1..maxRetries
          /\ obs[r].lastAttempts = SubSeq(FALLBACK_MODELS, 1, n)
          /\ req[r].pc \in { "returned", "generating", "responding", "done" }
          /\ req[r].pc = "returned" =>
                /\ req[r].result.model = FALLBACK_MODELS[n]
                /\ req[r].result.text # Null
          /\ req[r].pc # "returned" =>
                /\ req[r].usedModel = FALLBACK_MODELS[n]
                /\ req[r].responses # << >>
                /\ req[r].responses[Len(req[r].responses)]
                     = req[r].chunkResponse
          /\ req[r].pc = "done" => req[r].response.status = 200

\* the first two models failed with a quota signal and the third answered
C2_Witness ==
  \E r \in Slots :
    /\ obs[r].lastOutcome = "ok"
    /\ obs[r].lastStart = {}
    /\ Len(obs[r].lastAttempts) = 3
    /\ req[r].usedModel = FALLBACK_MODELS[3]
    /\ req[r].response.status = 200

(***************************************************************************)
(* Properties of the handler                                               *)
(***************************************************************************)
\* C7: when fetchTranscriptWithFallback throws or returns null, the request
\* ends with status 400 and the transcript message, and it has called
\* neither chunkTranscript nor generateWithFallback
C7_NoTranscriptNoGeneration ==
  \A r \in Slots :
    obs[r].fetch \in { "throw", "null" } =>
      /\ req[r].pc = "done"
      /\ req[r].response.status = 400
      /\ req[r].response.error = ErrNoTranscript
      /\ req[r].response.tutorial = Null
      /\ obs[r].chunked = 0
      /\ obs[r].genCalls = 0
      /\ req[r].chunks = << >>
      /\ req[r].responses = << >>

\* the fetch threw and the request was answered with 400
C7_Witness ==
  \E r \in Slots :
    /\ obs[r].fetch = "throw"
    /\ req[r].pc = "done"
    /\ req[r].response.status = 400

\* C5: a transcript of ScenarioLen characters is cut into 3 chunks wherever
\* the boundaries snap, generateWithFallback is called for one chunk after
\* the other, and a request answered with 200 has called it 3 times
C5_ThreeChunksThreeCalls ==
  \A r \in Slots :
    Len(req[r].transcript) = ScenarioLen =>
      /\ obs[r].chunked = 1
      /\ Len(req[r].chunks) = 3
      /\ InCall(req[r]) => obs[r].genCalls = req[r].i + 1
      /\ obs[r].genCalls <= 3
      /\ req[r].pc = "done" /\ req[r].response.status = 200 =>
            /\ obs[r].genCalls = 3
            /\ Len(req[r].responses) = 3
            /\ req[r].response.chunksProcessed = 3

\* a request with both boundaries snapped was answered with 200
C5_Witness ==
  \E r \in Slots :
    /\ Len(req[r].transcript) = ScenarioLen
    /\ req[r].pc = "done"
    /\ req[r].response.status = 200
    /\ obs[r].genCalls = 3
    /\ Len(req[r].chunks[1]) < CHUNK_SIZE
    /\ Len(req[r].chunks[2]) > CHUNK_SIZE

\* C11: mergeResponses on a single result returns that result unchanged:
\* nothing is trimmed, no title block is stripped, no newlines are collapsed
C11_SingleUnchanged ==
  mrPc = "returned" /\ Len(mrResponses) = 1 => mrMerged = mrResponses[1]

\* a single result with a run of five newlines came back as it was, where
\* the clean-up of line 312 would have shortened it
C11_Witness ==
  /\ mrPc = "returned"
  /\ mrResponses = << R_Gaps >>
  /\ mrMerged = R_Gaps
  /\ collapseNewlines(R_Gaps) # R_Gaps

(***************************************************************************)
(* Properties of getAvailableModel                                         *)
(***************************************************************************)
\* position in the roster
RosterIndex(m) == CHOOSE k \in 1..Len(FALLBACK_MODELS) : FALLBACK_MODELS[k] = m

\* C12: getAvailableModel returns the first model of the roster, in priority
\* order, that is not in the exhausted set, and leaves the set alone; when
\* every model is in the set it clears the set and returns the first model.
\* The model it returns is never in the set as it returns.
C12_SelectsFirstAvailable ==
  selPc \in { "returned", "responding" } =>
    /\ selModel \in Roster
    /\ selModel \notin modelQuotaExhausted
    /\ IF Roster \subseteq selFrom
       THEN modelQuotaExhausted = {} /\ selModel = FALLBACK_MODELS[1]
       ELSE /\ modelQuotaExhausted = selFrom
            /\ selModel \notin selFrom
            /\ \A k \in 1..(RosterIndex(selModel) - 1) : FALLBACK_MODELS[k] \in selFrom

\* the call found every model exhausted and reset
C12_Witness ==
  /\ selPc = "returned"
  /\ selFrom = Roster
  /\ modelQuotaExhausted = {}
  /\ selModel = FALLBACK_MODELS[1]

(***************************************************************************)
(* Properties of the exhausted set under concurrent requests               *)
(***************************************************************************)
\* request r completes a model selection in this step: it enters a generate
\* call or retries inside one
Selects(r) ==
  /\ req'[r].pc = "generating"
  /\ \/ obs'[r].attempts # obs[r].attempts
     \/ obs'[r].genCalls # obs[r].genCalls

\* the exhausted set that selection reads: on a retry the model that has
\* just failed is marked first (line 61)
SetSeenBy(r) ==
  IF InCall(req[r])
  THEN modelQuotaExhausted \cup { req[r].modelName }
  ELSE modelQuotaExhausted

\* C13: the exhausted set holds models of the roster only, in every state
\* and under every interleaving; a selection that finds every model of the
\* roster exhausted clears the set, so that no selection completes with the
\* set equal to the whole roster (or with a selected model that is in it)
C13_SubsetAndNeverFullAtSelection ==
  /\ [](modelQuotaExhausted \subseteq Roster)
  /\ [][\A r \in Slots :
          Selects(r) =>
            /\ modelQuotaExhausted' # Roster
            /\ req'[r].model \notin modelQuotaExhausted'
            /\ Roster \subseteq SetSeenBy(r) => modelQuotaExhausted' = {}
            /\ ~(Roster \subseteq SetSeenBy(r)) => modelQuotaExhausted' = SetSeenBy(r)]_vars

\* two requests in flight; one of them, on a retry, found every model
\* exhausted and the set was cleared
C13_Witness ==
  \E r \in Slots :
    /\ req[r].pc = "generating"
    /\ req[r].retryCount >= 1
    /\ modelQuotaExhausted = {}
    /\ req[r].model = FALLBACK_MODELS[1]
    /\ \E r2 \in Slots \ { r } : obs[r2].lastOutcome = "exhausted"

(***************************************************************************)
(* Properties of the terminal error                                        *)
(***************************************************************************)
\* S holds the first models of the roster and no other
IsRosterPrefix(S) ==
  \E n \in 0..Len(FALLBACK_MODELS) : S = { FALLBACK_MODELS[k] : k \in 1..n }

\* C14 as stated: a generate call that ended with the terminal error has
\* had a quota failure from every model of the roster during that call
C14_EveryModelFailedInCall ==
  \A r \in Slots :
    obs[r].lastOutcome = "exhausted" => Range(obs[r].lastAttempts) = Roster

\* C14, amended: the terminal error is raised after maxRetries attempts of
\* the call, each failed with a quota signal; they are on every model of the
\* roster when the exhausted set at the start of the call holds the first
\* models of the roster and no other request changes the set during the call
C14_EveryModelWhenUndisturbed ==
  \A r \in Slots :
    obs[r].lastOutcome = "exhausted" =>
      /\ Len(obs[r].lastAttempts) = maxRetries
      /\ req[r].retryCount = maxRetries - 1
      /\ IsRosterPrefix(obs[r].lastStart) /\ ~obs[r].disturbed
           => Range(obs[r].lastAttempts) = Roster

\* a call that began with the first model exhausted by the other request
\* went round the roster undisturbed and ended with the terminal error
C14_Witness ==
  \E r \in Slots :
    /\ obs[r].lastOutcome = "exhausted"
    /\ obs[r].lastStart = { FALLBACK_MODELS[1] }
    /\ ~obs[r].disturbed
    /\ obs[r].lastAttempts[maxRetries] = FALLBACK_MODELS[1]
    /\ Range(obs[r].lastAttempts) = Roster

(***************************************************************************)
(* Properties of the failures that are not quota signals                   *)
(***************************************************************************)
\* err is not a quota or availability signal: its status is neither 429
\* nor 503 and its message has neither of the quota phrases
NotQuotaSignal(err) ==
  /\ err.status \notin { 429, 503 }
  /\ Occurrences(err.message, QuotaWord) = {}
  /\ Occurrences(err.message, ResourceExhausted) = {}

\* C15: when the backend raises an error that is not a quota signal, the
\* generate call ends there: no further attempt is made, the model is not
\* added to the exhausted set, and the request, once the handler has caught
\* the error, is answered with the error response, without any part of the
\* document, on whichever chunk this is
C15_OtherErrorsPropagate ==
  \A r \in Slots :
    obs[r].raised # NoError /\ NotQuotaSignal(obs[r].raised) =>
      /\ obs[r].lastOutcome = "error"
      /\ obs[r].lastAttempts = obs[r].attempts
      /\ Len(obs[r].attempts) = req[r].retryCount + 1
      /\ obs[r].attempts[Len(obs[r].attempts)] = req[r].modelName
      /\ req[r].modelName \notin modelQuotaExhausted
      /\ req[r].pc \in { "raised", "done" }
      /\ req[r].pc = "raised" => req[r].response = NoResponse
      /\ req[r].pc = "done" =>
            /\ req[r].response.status = 500
            /\ req[r].response.error = ErrFailed
            /\ req[r].response.tutorial = Null

\* the third chunk failed after a quota retry; the two results generated
\* before are not returned
C15_Witness ==
  \E r \in Slots :
    /\ obs[r].raised # NoError
    /\ NotQuotaSignal(obs[r].raised)
    /\ req[r].i = 2
    /\ Len(req[r].responses) = 2
    /\ req[r].retryCount >= 1
    /\ req[r].response.status = 500
    /\ req[r].response.tutorial = Null

(***************************************************************************)
(* Properties of concurrent generate calls                                 *)
(***************************************************************************)
\* the generate call of r in progress: one attempt per retry, on a model of
\* the roster, within the limit
CallInBounds(r) ==
  /\ Len(obs[r].attempts) <= maxRetries
  /\ InCall(req[r]) =>
        /\ req[r].retryCount < maxRetries
        /\ Len(obs[r].attempts) = req[r].retryCount + 1
        /\ req[r].model \in Roster
        /\ obs[r].attempts[Len(obs[r].attempts)] = req[r].model

\* the request of r was answered after its last generate call
EndedAndAnswered(r) ==
  obs[r].lastOutcome # "" /\ req[r].pc = "done" =>
    \/ /\ obs[r].lastOutcome = "ok"
       /\ req[r].usedModel = obs[r].lastAttempts[Len(obs[r].lastAttempts)]
       /\ req[r].responses[Len(req[r].responses)] = req[r].chunkResponse
       /\ req[r].response.status = 200
       /\ req[r].response.tutorial = mergeResponses(req[r].responses)
    \/ /\ obs[r].lastOutcome = "exhausted"
       /\ Len(obs[r].lastAttempts) = maxRetries
       /\ ~NotQuotaSignal(obs[r].raised)
       /\ req[r].response.status = 500
    \/ /\ obs[r].lastOutcome = "error"
       /\ NotQuotaSignal(obs[r].raised)
       /\ req[r].response.status = 500

\* the generate call of r has ended in one of the three ways, and the
\* request was answered accordingly
CallEndedWell(r) ==
  /\ req[r].pc = "returned" =>
       /\ obs[r].lastOutcome = "ok"
       /\ req[r].result.model = obs[r].lastAttempts[Len(obs[r].lastAttempts)]
       /\ req[r].result.text # Null
  /\ req[r].pc = "raised" =>
       /\ obs[r].lastOutcome \in { "exhausted", "error" }
       /\ obs[r].lastOutcome = "exhausted" <=> ~NotQuotaSignal(obs[r].raised)
  /\ EndedAndAnswered(r)

\* an answer of the backend ends the call of r or is followed by one retry;
\* the handler then takes the result, or catches the error
AnswerAdvances(r) ==
  /\ InCall(req[r]) /\ req'[r] # req[r] =>
       \/ /\ req[r].pc = "generating"
          /\ req'[r].pc = "responding"
          /\ req'[r].retryCount = req[r].retryCount
       \/ /\ req[r].pc = "responding"
          /\ req'[r].pc = "returned"
          /\ obs'[r].lastOutcome = "ok"
       \/ req'[r].pc = "raised"
            /\ obs'[r].lastOutcome \in { "exhausted", "error" }
       \/ /\ req'[r].pc = "generating"
          /\ req'[r].retryCount = req[r].retryCount + 1
  /\ req[r].pc = "returned" /\ req'[r] # req[r] =>
       \/ req'[r].pc = "done" /\ req'[r].response.status = 200
       \/ req'[r].pc = "generating"
            /\ obs'[r].genCalls = obs[r].genCalls + 1
  /\ req[r].pc = "raised" /\ req'[r] # req[r] =>
       req'[r].pc = "done" /\ req'[r].response.status = 500

\* C16: with requests running generate calls concurrently on the shared
\* exhausted set, under every interleaving a call makes at most maxRetries
\* attempts, every answer of the backend ends it or costs one retry, and
\* it ends in success with the text and the model of its last attempt, in
\* the terminal error, or in the error the backend raised
C16_ConcurrentCallsEnd ==
  /\ [](\A r \in Slots : CallInBounds(r) /\ CallEndedWell(r))
  /\ [][\A r \in Slots : AnswerAdvances(r)]_vars

\* a request whose first attempt was stale (the other request had filled
\* and reset the set meanwhile) tried the same model again and succeeded
C16_Witness ==
  \E r \in Slots :
    /\ obs[r].disturbed
    /\ obs[r].lastOutcome = "ok"
    /\ Len(obs[r].lastAttempts) >= 2
    /\ obs[r].lastAttempts[1] = obs[r].lastAttempts[2]
    /\ req[r].response.status = 200

(***************************************************************************)
(* Properties of the chunk loop                                            *)
(***************************************************************************)
\* the generate calls of r that have not ended: every call made, less those
\* whose result the handler has taken, the one whose result it has yet to
\* take, and the one that threw
InFlight(r) ==
  obs[r].genCalls - Len(req[r].responses)
    - (IF req[r].pc = "returned" THEN 1 ELSE 0)
    - (IF obs[r].lastOutcome \in { "exhausted", "error" } THEN 1 ELSE 0)

\* C17: within a request the generate calls are made for the chunks in
\* increasing index, one for each index from the first on; the call for a
\* chunk is made only when the calls for all the chunks before it have
\* returned their results, and at most one call is in flight at any time
C17_ChunksInSequence ==
  \A r \in Slots :
    /\ obs[r].callsFor = [ k \in 1..obs[r].genCalls |-> k - 1 ]
    /\ obs[r].genCalls <= Len(req[r].chunks)
    /\ InFlight(r) \in { 0, 1 }
    /\ InFlight(r) = 1 <=> InCall(req[r])
    /\ req[r].pc \in { "generating", "responding", "returned", "raised" } =>
          /\ req[r].i = obs[r].genCalls - 1
          /\ Len(req[r].responses) = req[r].i
    /\ req[r].pc = "done" /\ req[r].response.status = 200 =>
          Len(req[r].responses) = Len(req[r].chunks)

\* the call for the third chunk is in flight, after a quota retry, with the
\* results of the first two chunks in hand
C17_Witness ==
  \E r \in Slots :
    /\ req[r].pc = "generating"
    /\ obs[r].callsFor = << 0, 1, 2 >>
    /\ Len(req[r].responses) = 2
    /\ req[r].retryCount >= 1

(***************************************************************************)
(* Properties of the generation context                                    *)
(***************************************************************************)
\* the context as it stands after the results rs: nothing before the first
\* result, then the summary of all the results joined and the preview of
\* the last of them
ContextAfter(rs) ==
  IF rs = << >>
  THEN [ previousSummary |-> Null, lastSectionPreview |-> Null ]
  ELSE [ previousSummary |-> extractSummary(Join(rs, BlankLine)),
         lastSectionPreview |-> getLastSectionPreview(rs[Len(rs)]) ]

AllButLast(rs) == SubSeq(rs, 1, Len(rs) - 1)

\* C18: the context is empty when the prompt of the first chunk is built;
\* the prompt of chunk k carries the summary of the results of the chunks
\* before it, joined, and the preview of the result just before it; after
\* the result of the last chunk the context is not rebuilt, so that result
\* is in no context and in no prompt
C18_ContextFedForward ==
  \A r \in Slots :
    /\ Len(obs[r].sent) = obs[r].genCalls
    /\ \A k \in 1..Len(obs[r].sent) :
         /\ k <= Len(req[r].responses) + 1
         /\ obs[r].sent[k].previousSummary
              = ContextAfter(SubSeq(req[r].responses, 1, k - 1)).previousSummary
         /\ obs[r].sent[k].lastSectionPreview
              = ContextAfter(SubSeq(req[r].responses, 1, k - 1)).lastSectionPreview
    /\ InCall(req[r]) =>
         /\ req[r].previousSummary
              = ContextAfter(req[r].responses).previousSummary
         /\ req[r].lastSectionPreview
              = ContextAfter(req[r].responses).lastSectionPreview
    /\ req[r].pc = "done" /\ req[r].response.status = 200 =>
         /\ Len(obs[r].sent) = Len(req[r].responses)
         /\ req[r].previousSummary
              = ContextAfter(AllButLast(req[r].responses)).previousSummary
         /\ req[r].lastSectionPreview
              = ContextAfter(AllButLast(req[r].responses)).lastSectionPreview

\* a request answered with 200 after three results that tell the summary of
\* all from the summary of one, and the context with the last result from
\* the context without it
C18_Witness ==
  \E r \in Slots :
    /\ req[r].pc = "done"
    /\ req[r].response.status = 200
    /\ req[r].responses = << R_Cont, R_Plain, R_Cont >>
    /\ obs[r].sent[1].previousSummary = Null
    /\ obs[r].sent[3].previousSummary # extractSummary(R_Plain)
    /\ ContextAfter(req[r].responses) # ContextAfter(AllButLast(req[r].responses))

(***************************************************************************)
(* Properties of the truncation in mergeResponses                          *)
(***************************************************************************)
\* merged after the first j results have been merged
MergedAfter(responses, j) == mergeLoop(SubSeq(responses, 1, j), 1, responses[1])

\* the 0-based offset in MergedAfter(responses, j) at which the text
\* contributed by result j begins
ContributionStart(responses, j) ==
  IF j = 1 THEN 0
  ELSE Len(TrimAtHeading(MergedAfter(responses, j - 1), responses[j])) + 2

\* headingInPrevious of the iteration that merges result j + 1, -1 also when
\* that result has no level-2 heading
CutFor(responses, j) ==
  IF FirstHeading2(responses[j + 1]) = << >> THEN -1
  ELSE lastIndexOf(MergedAfter(responses, j), FirstHeading2(responses[j + 1]))

\* C19: when the first heading line of the current result occurs in the text
\* merged so far, that text is cut right before an occurrence of the line,
\* and what is cut off lies wholly inside the text contributed by the result
\* just before the current one: nothing contributed by an earlier result is
\* removed
C19_TruncationWithinPrevious ==
  (mrPc = "loop" /\ mrI >= 2 /\ CutFor(mrResponses, mrI - 1) # -1) =>
    LET before  == MergedAfter(mrResponses, mrI - 1)
        current == mrResponses[mrI]
        cut     == CutFor(mrResponses, mrI - 1)
    IN  /\ OccursAt(before, FirstHeading2(current), cut)
        /\ mrMerged = substring(before, 0, cut) \o BlankLine
                         \o stripTitleBlock(current)
        /\ cut >= ContributionStart(mrResponses, mrI - 1)

\* the third result restates a heading of the first one that the second does
\* not have: the cut falls before the text the second result contributed
C19_Witness ==
  /\ mrPc = "loop"
  /\ mrI = 3
  /\ mrResponses = << R_Cont, R_Plain, R_Cont >>
  /\ CutFor(mrResponses, 2) = 0
  /\ ContributionStart(mrResponses, 2) = Len(R_Cont) + 2
  /\ mrMerged = BlankLine \o R_Cont

(***************************************************************************)
(* Properties of the sentence search in chunkTranscript                    *)
(***************************************************************************)
\* the region searched around the tentative end t
RegionAround(transcript, t) ==
  substring(transcript, t - SEARCH_RADIUS,
            Min(t + SEARCH_RADIUS, Len(transcript)))

\* the index right after the mark and the whitespace of the last sentence end
\* of the region around t, t itself when the region has none
BoundaryFor(transcript, t) ==
  LET region == RegionAround(transcript, t)
  IN  IF SentenceEnds(region) = {} THEN t
      ELSE (t - SEARCH_RADIUS) + (SetMax(SentenceEnds(region)) - 1)
             + SentenceEndLenAt(region, SetMax(SentenceEnds(region)))

\* chunk i ends where the last sentence end of its region ends
EndsAtLastSentenceEnd(transcript, chunks, i) ==
  LET start == ChunkOffset(chunks, i)
      t     == start + CHUNK_SIZE
      end   == start + Len(chunks[i])
  IN  t < Len(transcript) =>
        /\ end = BoundaryFor(transcript, t)
        /\ SentenceEnds(RegionAround(transcript, t)) # {} =>
             /\ end < Len(transcript)
             /\ transcript[end + 1] \in UpperCase

\* C20: when the tentative end of a window is not the end of the text and
\* the region of SEARCH_RADIUS characters either side of it has a mark
\* (. ! ?) followed by whitespace and an upper-case letter, the chunk ends
\* right after the mark and the whitespace of the last such occurrence, and
\* the character after the chunk's end is that upper-case letter; when the
\* region has no such occurrence the chunk ends at the tentative end
C20_EndsAtLastSentenceEnd ==
  Len(ckTranscript) > CHUNK_SIZE =>
    \A i \in 1..Len(ckChunks) :
      EndsAtLastSentenceEnd(ckTranscript, ckChunks, i)

\* the region of the first window has one sentence end, ". A" 100 characters
\* before the tentative end, and ". a" 100 characters after it: the chunk
\* ends after that ". ", before a lower-case letter
C20_Witness ==
  /\ ckPc = "returned"
  /\ Len(ckChunks) >= 2
  /\ BoundaryFor(ckTranscript, CHUNK_SIZE) = CHUNK_SIZE - 100 + 2
  /\ Len(ckChunks[1]) = CHUNK_SIZE + 100 + 2
  /\ Len(ckTranscript) > CHUNK_SIZE + 100 + 2
  /\ ckTranscript[CHUNK_SIZE + 100 + 3] \notin UpperCase

(***************************************************************************)
(* Properties of the prompts                                               *)
(***************************************************************************)
\* C21: the closing sections are asked for once per request: with more than
\* one chunk the first prompt carries the note not to include Summary/Next
\* Steps, and FINAL_CHUNK_SUFFIX is appended to the prompt of a chunk exactly
\* when it is the last one; with one chunk the single prompt asks for the
\* complete tutorial
C21_ClosingAskedOnce ==
  \A r \in Slots :
    \A k \in 1..Len(obs[r].sent) :
      LET p == obs[r].sent[k]
          n == Len(req[r].chunks)
      IN  /\ p.part = k /\ p.of = n /\ k <= n
          /\ n > 1 =>
               /\ (k = 1) => (p.note = NoteMultiPart /\ p.template = "TUTORIAL_PROMPT")
               /\ (k > 1) => p.template = "CONTINUATION_PROMPT"
               /\ p.final <=> (k = n)
          /\ n = 1 => (p.note = NoteComplete /\ ~p.final
                         /\ p.template = "TUTORIAL_PROMPT")

\* a request of three chunks answered with 200: the first prompt with the
\* note, the third with the suffix, the second with neither
C21_Witness ==
  \E r \in Slots :
    /\ req[r].pc = "done" /\ req[r].response.status = 200
    /\ Len(obs[r].sent) = 3
    /\ obs[r].sent[1].note = NoteMultiPart
    /\ ~obs[r].sent[2].final
    /\ obs[r].sent[3].final

(***************************************************************************)
(* Properties of getLastSectionPreview                                     *)
(***************************************************************************)
\* t is the end of s
IsSuffix(t, s) == Len(t) <= Len(s) /\ sliceLast(s, Len(t)) = t

\* 1-based positions of s where "##", whitespace and a character other than
\* a newline begin
MarkerStarts(s) == { p \in 1..Len(s) : SectionEndAt(s, p) > 0 }

\* the text preview, an end of content, begins at the first character of a
\* heading line of content
BeginsAtHeadingLine(preview, content) ==
  /\ Len(preview) > 0
  /\ preview[1] = "#"
  /\ (Len(content) - Len(preview) + 1) \in LineStartsOf(content)

\* the preview is made as the claim says
PreviewAsClaimed(content, preview, clean) ==
  LET tail == sliceLast(content, PREVIEW_TAIL)
  IN  /\ IsSuffix(preview, content)
      /\ Len(preview) <= PREVIEW_TAIL
      /\ IF MarkerStarts(tail) # {}
         THEN /\ preview = SubSeq(tail, SetMax(MarkerStarts(tail)), Len(tail))
              /\ clean => BeginsAtHeadingLine(preview, content)
         ELSE preview = sliceLast(content, PREVIEW_FALLBACK)

\* C22: getLastSectionPreview looks at the last PREVIEW_TAIL characters of
\* the result; when a heading marker occurs there, the preview is the tail
\* from the last one on and so begins at the first character of a heading
\* line; otherwise it is the last PREVIEW_FALLBACK characters; in every case
\* it is an end of the result of at most PREVIEW_TAIL characters
C22_PreviewFromCleanBoundary ==
  sumPc = "previewed" => PreviewAsClaimed(sumContent, sumResult, TRUE)

\* the last heading of the text is of level 3: the preview begins at its
\* second "#"
C22_Witness ==
  /\ sumPc = "previewed"
  /\ sumContent = HeadedDoc(1, [ i \in VariedLines |-> 3 ], PREVIEW_FALLBACK - 100)
  /\ sumResult = Tail(sumContent)
  /\ sumResult[1] = "#" /\ sumContent[1] = "#"

(***************************************************************************)
(* Totality of extraction and merge                                        *)
(***************************************************************************)
\* a string, not undefined and not an error
IsText(s) == s \notin { Undefined, TypeError }

\* extractSummary and getLastSectionPreview have returned a string, by their
\* fallbacks on a text without headings
ExtractionReturns ==
  /\ sumPc \in { "returned", "previewed" } => IsText(sumResult)
  /\ (sumPc = "returned" /\ HeadingLines(sumContent, 6) = << >>)
       => sumResult = sliceLast(sumContent, SUMMARY_FALLBACK)
  /\ (sumPc = "previewed" /\ HeadingLines(sumContent, 6) = << >>)
       => sumResult = sliceLast(sumContent, PREVIEW_FALLBACK)

\* C23: extractSummary and getLastSectionPreview return a string for every
\* text, and mergeResponses returns a string for every sequence of results
\* POST can pass to it, results that are empty or without headings
\* included; none of them raises
C23_ExtractionAndMergeTotal ==
  /\ ExtractionReturns
  /\ mrPc # "threw"
  /\ mrPc = "returned" =>
       (IsText(mrMerged) /\ mrMerged = mergeResponses(mrResponses))

\* a result without headings merged with an empty one
C23_Witness ==
  /\ mrPc = "returned"
  /\ mrResponses = << R_Plain, << >> >>
  /\ mrMerged = R_Plain \o BlankLine

(***************************************************************************)
(* Properties of the checks before the transcript fetch                    *)
(***************************************************************************)
\* request r has been answered with status and error, having fetched no
\* transcript, chunked nothing and called the backend for nothing
RefusedWith(r, status, error) ==
  /\ req[r].pc = "done"
  /\ req[r].response.status = status
  /\ req[r].response.error = error
  /\ obs[r].fetch = ""
  /\ obs[r].chunked = 0
  /\ obs[r].genCalls = 0

\* the request of r carried no url: its body was not JSON, was null, or held
\* no url (or a url that is falsy)
UrlMissing(r) == obs[r].url \in { Null, JsonRejects, BodyNull }

\* the request of r carried a url no video id can be extracted from: a url
\* that is no string, or a string extractVideoId finds no id in
UrlWithoutId(r) ==
  \/ obs[r].url = UrlNotString
  \/ obs[r].url \notin Unreadable \cup { Null }
       /\ extractVideoId(obs[r].url) = Null

\* the request of r carried a string with a video id
UrlWithId(r) ==
  /\ obs[r].url \notin Unreadable \cup { Null }
  /\ extractVideoId(obs[r].url) # Null

\* C24 as stated: every request without a url, and every request with a url
\* no video id can be extracted from, is answered 400 at once, and one that
\* arrives when GEMINI_API_KEY is missing is answered 500, before any
\* transcript fetch, chunking or backend call
C24_BadInputIs400 ==
  \A r \in Slots :
    req[r].pc \notin { "idle", "off" } =>
      /\ UrlMissing(r) => RefusedWith(r, 400, ErrUrlRequired)
      /\ UrlWithoutId(r) => RefusedWith(r, 400, ErrInvalidUrl)
      /\ (UrlWithId(r) /\ ~apiKeySet) => RefusedWith(r, 500, ErrNoApiKey)

\* every request that fails one of the checks before the fetch, or throws
\* before them, has been answered without an outside call
RefusedAtOnce ==
  \A r \in Slots :
    req[r].pc \notin { "idle", "off" } =>
      /\ obs[r].url = Null => RefusedWith(r, 400, ErrUrlRequired)
      /\ (UrlWithoutId(r) /\ obs[r].url # UrlNotString)
           => RefusedWith(r, 400, ErrInvalidUrl)
      /\ obs[r].url \in Unreadable => RefusedWith(r, 500, ErrFailed)
      /\ (UrlWithId(r) /\ ~apiKeySet) => RefusedWith(r, 500, ErrNoApiKey)

\* a request answered in the step it arrives in leaves the exhausted set and
\* the record of backend calls as they were
RefusalChangesNothing ==
  \A r \in Slots :
    (req[r].pc = "idle" /\ req'[r].pc = "done") =>
      /\ modelQuotaExhausted' = modelQuotaExhausted
      /\ lastCall' = lastCall

\* C24, amended: a request whose body holds no url (or a falsy one), or a
\* string no video id can be extracted from, is answered 400 at once; one
\* whose body is not JSON or is null, or whose url is truthy and no string,
\* is answered 500 with the general message by the catch of POST; one that
\* arrives when GEMINI_API_KEY is missing is answered 500; all of them
\* before any transcript fetch, chunking or backend call, and none of them
\* makes an outside call or changes the exhausted set
C24_FailFast == []RefusedAtOnce /\ [][RefusalChangesNothing]_vars

\* after a request has marked a model, a request with a url without a video
\* id has been refused, the mark still there
C24_Witness ==
  \E r \in Slots :
    /\ RefusedWith(r, 400, ErrInvalidUrl)
    /\ obs[r].url = UrlOther
    /\ modelQuotaExhausted # {}

\* a request without a body that parses has been answered 500 by the catch,
\* with the key missing
C24_UnreadableWitness ==
  \E r \in Slots :
    /\ obs[r].url = JsonRejects
    /\ ~apiKeySet
    /\ RefusedWith(r, 500, ErrFailed)

(***************************************************************************)
(* Properties of the newline clean-up                                      *)
(***************************************************************************)
\* s has a run of four or more newlines
HasLongRun(s) ==
  \E p \in 1..(Len(s) - 3) : \A i \in 0..3 : s[p + i] = "\n"

\* the positions of s that stay when every run of newlines longer than three
\* is cut to its first three: all but the newlines that three newlines
\* precede
Kept(s) ==
  { p \in 1..Len(s) :
      ~(s[p] = "\n" /\ p >= 4 /\ \A i \in 1..3 : s[p - i] = "\n") }

\* the characters of s at the positions K, in order
Pick(s, K) ==
  [ i \in 1..Cardinality(K) |->
      s[CHOOSE p \in K : Cardinality({ q \in K : q < p }) = i - 1] ]

\* C25: for two or more results the text mergeResponses returns has no run
\* of four or more newlines: it is the concatenation with every such run cut
\* to exactly three newlines, runs of three or fewer left as they are
C25_LongRunsCollapsed ==
  (mrPc = "returned" /\ Len(mrResponses) >= 2) =>
    LET joined == MergedAfter(mrResponses, Len(mrResponses))
    IN  /\ ~HasLongRun(mrMerged)
        /\ mrMerged = Pick(joined, Kept(joined))

\* a run of five newlines inside a result, and a run of four made by the
\* blank line put between two results
C25_Witness ==
  /\ mrPc = "returned"
  /\ mrResponses = << R_Gaps, R_Plain >>
  /\ HasLongRun(MergedAfter(mrResponses, 2))
  /\ mrMerged = << "o", "p", "\n", "\n", "\n", "q", "r", "\n", "\n", "\n",
                   "m", "n" >>

(***************************************************************************)
(* How the exhausted set changes                                           *)
(***************************************************************************)
\* in this step the attempt of request r has failed with a quota signal
QuotaFailureOf(r) ==
  /\ InCall(req[r])
  /\ IsQuotaError(obs'[r].raised)
  /\ \/ Len(obs'[r].attempts) = Len(obs[r].attempts) + 1
     \/ req'[r].pc = "raised" /\ obs'[r].lastOutcome = "exhausted"

\* a model enters the set only in a step in which an attempt on it fails
\* with a quota signal
MarkedOnlyOnQuotaFailure ==
  \A m \in modelQuotaExhausted' \ modelQuotaExhausted :
    \E r \in Slots : QuotaFailureOf(r) /\ req[r].model = m

\* a model leaves the set only when a selection finds every model of the
\* roster exhausted, and then all of them leave
LeavesOnlyByReset ==
  ~(modelQuotaExhausted \subseteq modelQuotaExhausted') =>
    /\ modelQuotaExhausted' = {}
    /\ \E r \in Slots : Selects(r) /\ Roster \subseteq SetSeenBy(r)

\* a success leaves the set as it is, when the call returns and when the
\* handler answers the request
SuccessKeepsSet ==
  \A r \in Slots :
    \/ req[r].pc = "generating" /\ req'[r].pc = "responding"
    \/ req[r].pc = "responding" /\ req'[r].pc = "returned"
    \/ req[r].pc = "returned" /\ req'[r].pc = "done"
    => modelQuotaExhausted' = modelQuotaExhausted

\* an attempt is started on a model that is not marked, or every model of
\* the roster was marked
NoAttemptOnMarked ==
  \A r \in Slots :
    Selects(r) =>
      \/ req'[r].model \notin SetSeenBy(r)
      \/ Roster \subseteq SetSeenBy(r)

\* C26: a model is added to the exhausted set only when an attempt on it has
\* just failed with a quota signal; models leave the set only through the
\* reset at selection time when every model is exhausted, never by a
\* success; so no request starts an attempt on a marked model until every
\* other model has been marked too
C26_SetChangesOnlyByMarkAndReset ==
  [][/\ MarkedOnlyOnQuotaFailure
     /\ LeavesOnlyByReset
     /\ SuccessKeepsSet
     /\ NoAttemptOnMarked]_vars

\* one request has marked the first model and the other has since started
\* its call on the second one
C26_Witness ==
  \E r, r2 \in Slots :
    /\ r # r2
    /\ FALLBACK_MODELS[1] \in modelQuotaExhausted
    /\ obs[r].attempts = << FALLBACK_MODELS[1], FALLBACK_MODELS[2] >>
    /\ req[r2].pc = "generating"
    /\ obs[r2].attempts = << FALLBACK_MODELS[2] >>

(***************************************************************************)
(* The model name reported and marked                                      *)
(***************************************************************************)
\* the names request r has marked in its call are the models of its
\* attempts that have failed: all of them but the one in flight, or but the
\* one that succeeded or raised another error
MarksFollowAttempts(r) ==
  /\ InCall(req[r]) =>
       /\ req[r].modelName = req[r].model
       /\ obs[r].marked = AllButLast(obs[r].attempts)
  /\ (req[r].pc \in { "returned", "raised", "done" }
        /\ obs[r].lastOutcome \in { "ok", "error" }) =>
       obs[r].marked = AllButLast(obs[r].lastAttempts)
  /\ (req[r].pc \in { "raised", "done" } /\ obs[r].lastOutcome = "exhausted") =>
       obs[r].marked = obs[r].lastAttempts

\* C27: the name generateWithFallback reports on success, and the name it
\* marks on a quota failure, is the model the attempt was made on, whatever
\* other requests do to the exhausted set while the attempt is in flight
C27_NameIsModelAttempted ==
  \A r \in Slots :
    /\ MarksFollowAttempts(r)
    /\ req[r].pc = "returned" =>
         req[r].result.model = obs[r].lastAttempts[Len(obs[r].lastAttempts)]
    /\ (req[r].pc = "done" /\ obs[r].lastOutcome = "ok") =>
         req[r].usedModel = obs[r].lastAttempts[Len(obs[r].lastAttempts)]

\* a request reports the model it was answered by, which the other request
\* has marked while the attempt was in flight
C27_Witness ==
  \E r \in Slots :
    /\ req[r].pc = "done"
    /\ obs[r].lastOutcome = "ok"
    /\ obs[r].disturbed
    /\ req[r].usedModel = FALLBACK_MODELS[1]
    /\ req[r].usedModel \in modelQuotaExhausted

(***************************************************************************)
(* The sizes of the chunks                                                 *)
(***************************************************************************)
\* chunk i is not the last one chunkTranscript returns
NotLastChunk(i) == i < Len(ckChunks) \/ ckPc = "loop"

\* C28: for a text longer than CHUNK_SIZE no chunk is longer than
\* CHUNK_SIZE + SEARCH_RADIUS, every chunk but the last is longer than
\* CHUNK_SIZE - SEARCH_RADIUS, and every chunk, the last included, is longer
\* than OVERLAP_SIZE, so that it holds a character the chunk before does not
C28_ChunkSizesBounded ==
  Len(ckTranscript) > CHUNK_SIZE =>
    \A i \in 1..Len(ckChunks) :
      /\ Len(ckChunks[i]) <= CHUNK_SIZE + SEARCH_RADIUS
      /\ Len(ckChunks[i]) > OVERLAP_SIZE
      /\ NotLastChunk(i) => Len(ckChunks[i]) > CHUNK_SIZE - SEARCH_RADIUS

\* three chunks, the first as long as the search lets it be
C28_Witness ==
  /\ ckPc = "returned"
  /\ Len(ckChunks) = 3
  /\ Len(ckChunks[1]) = CHUNK_SIZE + SEARCH_RADIUS - 1
  /\ Len(ckChunks[2]) > CHUNK_SIZE - SEARCH_RADIUS
  /\ Len(ckChunks[3]) > OVERLAP_SIZE

\* ---------------------------------------------------------------------------
\* fetchTranscriptWithFallback followed call by call (transcriptUtils.ts
\* 14-82): one step per library call, then the step that ends the function.
\* ---------------------------------------------------------------------------

\* a caption text far below the minimum
ShortText == SubSeq(Filler, 1, 10)

\* 49 characters between white space other than blanks and newlines
PaddedWide49 ==
  << NBSP, "\f" >> \o SubSeq(Filler, 1, MIN_TRANSCRIPT - 1) \o << LS, VT >>

\* what the two libraries answer for the video of the call
FetchAnswers ==
  LibraryAnswers \cup
  { [ s1 |-> a, s2 |-> b ] :
      a \in { Threw, Nothing, Got(ShortText) },
      b \in { [ Always(Nothing) EXCEPT !["en-US"] = Got(ShortText) ],
              [ Always(Got(ShortText)) EXCEPT !["en-GB"] = Got(Text50) ],
              [ Always(Threw) EXCEPT !["en"] = Got(Null) ],
              [ Always(Nothing) EXCEPT !["en"] = Got(PaddedWide49),
                                       !["auto"] = Got(Text50) ] } }

FetchInit ==
  /\ ftPc = "strategy1"
  /\ \E a \in FetchAnswers : ftS1 = a.s1 /\ ftS2 = a.s2
  /\ ftLang = 0
  /\ ftErrors = << >>
  /\ ftTried = << >>
  /\ ftResult = NoTranscript
  /\ ChunkIdle
  /\ SummaryIdle
  /\ MergeIdle
  /\ SelectIdle
  /\ PromptIdle
  /\ ServerOff

\* lines 40-44: an await of strategy 1 has rejected; the catch pushes the
\* error and strategy 2 begins
Strategy1Failed ==
  /\ ftErrors' = Append(ftErrors, "youtubei.js")
  /\ ftLang' = 1
  /\ ftPc' = "strategy2"
  /\ UNCHANGED ftResult

\* line 24: Innertube.create settles; it can reject when strategy 1 is to
\* fail with an error
FetchCreate(rejects) ==
  /\ ftPc = "strategy1"
  /\ rejects => ftS1.kind = "throw"
  /\ ftTried' = Append(ftTried, "innertube")
  /\ IF rejects
     THEN Strategy1Failed
     ELSE ftPc' = "getInfo" /\ UNCHANGED << ftLang, ftErrors, ftResult >>
  /\ UNCHANGED << ftS1, ftS2, ckVars, sumVars, mrVars, plVars, selVars, ptVars >>

\* line 25: youtube.getInfo settles; it can reject likewise
FetchGetInfo(rejects) ==
  /\ ftPc = "getInfo"
  /\ rejects => ftS1.kind = "throw"
  /\ IF rejects
     THEN Strategy1Failed
     ELSE ftPc' = "getTranscript" /\ UNCHANGED << ftLang, ftErrors, ftResult >>
  /\ UNCHANGED << ftS1, ftS2, ftTried, ckVars, sumVars, mrVars, plVars, selVars, ptVars >>

\* lines 26-44: info.getTranscript settles; a text longer than 50 characters
\* is returned, an error is caught and pushed to errors
FetchGetTranscript ==
  /\ ftPc = "getTranscript"
  /\ IF InnerTubeAccepts(ftS1)
     THEN /\ ftResult' = Transcript(ftS1.text, InnerTubeSource)
          /\ ftPc' = "returned"
          /\ UNCHANGED << ftLang, ftErrors >>
     ELSE IF ftS1.kind = "throw"
     THEN Strategy1Failed
     ELSE /\ ftLang' = 1
          /\ ftPc' = "strategy2"
          /\ UNCHANGED << ftErrors, ftResult >>
  /\ UNCHANGED << ftS1, ftS2, ftTried, ckVars, sumVars, mrVars, plVars, selVars, ptVars >>

\* lines 52-67: one turn of the loop over langs; the inner catch swallows the
\* error of the language
FetchLang ==
  /\ ftPc = "strategy2"
  /\ ftLang <= Len(Langs)
  /\ ftTried' = Append(ftTried, Langs[ftLang])
  /\ IF CaptionAccepts(ftS2, ftLang)
     THEN /\ ftResult' = Transcript(ftS2[Langs[ftLang]].text,
                                    CaptionSource(Langs[ftLang]))
          /\ ftPc' = "returned"
          /\ UNCHANGED ftLang
     ELSE /\ ftLang' = ftLang + 1
          /\ ftPc' = IF ftLang = Len(Langs) THEN "end" ELSE "strategy2"
          /\ UNCHANGED ftResult
  /\ UNCHANGED << ftS1, ftS2, ftErrors, ckVars, sumVars, mrVars, plVars, selVars, ptVars >>

\* lines 74-81: nothing was produced
FetchEnd ==
  /\ ftPc = "end"
  /\ IF Len(ftErrors) > 0
     THEN ftResult' = FetchThrew /\ ftPc' = "threw"
     ELSE ftResult' = NoTranscript /\ ftPc' = "returned"
  /\ UNCHANGED << ftS1, ftS2, ftLang, ftErrors, ftTried, ckVars, sumVars, mrVars, plVars, selVars, ptVars >>

FetchNext ==
  \/ \E rejects \in BOOLEAN : FetchCreate(rejects)
  \/ \E rejects \in BOOLEAN : FetchGetInfo(rejects)
  \/ FetchGetTranscript
  \/ FetchLang
  \/ FetchEnd

SpecFetch == FetchInit /\ [][FetchNext]_vars

\* the library calls of a complete run, in order
AllCalls == << "innertube" >> \o Langs

\* the last library call made
LastTried == ftTried[Len(ftTried)]

\* some language has a caption text of at least 50 characters once trimmed
SomeCaptionGood ==
  \E lang \in Range(Langs) :
    ftS2[lang].kind = "text" /\ TrimmedLen(ftS2[lang].text) >= 50

\* C29: the library calls are made in the order InnerTube, en, en-US, en-GB,
\* auto, and the caption extractor is called only when InnerTube gave no text
\* longer than 50 characters; when InnerTube raised an error and a caption
\* language is good, the call returns that transcript and not the error; the
\* call throws only when InnerTube raised an error and all five calls produced
\* nothing, and returns null only when InnerTube raised nothing and all five
\* calls produced nothing; a returned transcript has at least 50 characters,
\* is the text of the call that produced it, and carries that call's source
\* tag.
C29_FallbackOrderAndOutcome ==
  ftPc # "idle" =>
    /\ Len(ftTried) <= Len(AllCalls)
    /\ ftPc \in { "getInfo", "getTranscript" } =>
         (ftTried = << "innertube" >> /\ ftErrors = << >>)
    /\ ftTried = SubSeq(AllCalls, 1, Len(ftTried))
    /\ Len(ftTried) >= 2 => ~(ftS1.kind = "text" /\ Len(ftS1.text) > 50)
    /\ ftPc \in { "returned", "threw" } =>
         /\ ftResult = fetchTranscriptWithFallback(ftS1, ftS2)
         /\ (ftS1.kind = "throw" /\ SomeCaptionGood) => ftResult.kind = "ok"
    /\ ftPc = "threw" =>
         /\ ftResult.kind = "throw"
         /\ ftS1.kind = "throw"
         /\ ftTried = AllCalls
         /\ ~SomeCaptionGood
    /\ ftPc = "returned" =>
         /\ ftResult.kind \in { "ok", "null" }
         /\ ftResult.kind = "null" =>
              /\ ftS1.kind # "throw"
              /\ ftTried = AllCalls
              /\ ~SomeCaptionGood
         /\ ftResult.kind = "ok" =>
              /\ Len(ftResult.text) >= 50
              /\ \/ /\ ftTried = << "innertube" >>
                    /\ ftResult.source = "youtubei.js (InnerTube)"
                    /\ ftResult.text = ftS1.text
                 \/ /\ Len(ftTried) >= 2
                    /\ ftResult.source =
                         "youtube-caption-extractor (" \o LastTried \o ")"
                    /\ ftResult.text = ftS2[LastTried].text

\* InnerTube raised an error, en and en-US gave nothing usable, and the
\* transcript of en-GB was returned
C29_Witness ==
  /\ ftPc = "returned"
  /\ ftS1.kind = "throw"
  /\ ftTried = << "innertube", "en", "en-US", "en-GB" >>
  /\ ftS2["en"].kind = "text"
  /\ ftResult.kind = "ok"
  /\ ftResult.text = ftS2["en-GB"].text

\* ---------------------------------------------------------------------------
\* The text of a continuation prompt (route.ts 163-195 and 411-431)
\* ---------------------------------------------------------------------------

\* the characters of a string, as a text of the model
Chars(str) == [ i \in 1..Len(str) |-> SubSeq(str, i, i) ]

\* the character U+0060 (written \` in the template literals of the source)
BackTick == "U+0060"

\* lines 163-187
CONTINUATION_PROMPT ==
  Chars("You are continuing to write a technical tutorial documentation. You have already written the beginning of the tutorial based on the first part of the transcript.\n")
  \o Chars("\n")
  \o Chars("## CONTEXT FROM PREVIOUS SECTION\n")
  \o Chars("Here is a summary of what has been covered so far:\n")
  \o Chars("{PREVIOUS_SUMMARY}\n")
  \o Chars("\n")
  \o Chars("The last section you wrote ended with:\n")
  \o Chars("{LAST_SECTION_PREVIEW}\n")
  \o Chars("\n")
  \o Chars("## YOUR TASK\n")
  \o Chars("Continue writing the tutorial from where you left off. The transcript below picks up from where the previous section ended.\n")
  \o Chars("\n")
  \o Chars("## CRITICAL RULES\n")
  \o Chars("1. **DO NOT** repeat the Overview, Prerequisites, or Table of Contents - those are already written\n")
  \o Chars("2. **DO NOT** restart section numbering - continue from where you left off\n")
  \o Chars("3. **MAINTAIN** the same formatting style and structure\n")
  \o Chars("4. **CONTINUE** the step-by-step flow naturally\n")
  \o Chars("5. If this is the FINAL chunk, include the Summary and Next Steps sections\n")
  \o Chars("\n")
  \o Chars("## FORMATTING REMINDERS\n")
  \o Chars("- Use ") \o << BackTick >> \o << BackTick >> \o << BackTick >> \o Chars("language for code blocks\n")
  \o Chars("- Use ") \o << BackTick >> \o Chars("inline code") \o << BackTick >> \o Chars(" for file names, function names, variables\n")
  \o Chars("- Keep the same professional tone\n")
  \o Chars("\n")
  \o Chars("Continue the tutorial now:")

\* lines 190-195
FINAL_CHUNK_SUFFIX ==
  Chars("\n")
  \o Chars("\n")
  \o Chars("**IMPORTANT**: This is the FINAL section of the transcript. Make sure to:\n")
  \o Chars("1. Complete any remaining steps\n")
  \o Chars("2. Add a \"## Summary\" section with key takeaways\n")
  \o Chars("3. Add a \"## Next Steps\" section with suggestions for further learning")

\* the two placeholders of lines 414 and 415
PREVIOUS_SUMMARY == Chars("{PREVIOUS_SUMMARY}")

LAST_SECTION_PREVIEW == Chars("{LAST_SECTION_PREVIEW}")

\* GetSubstitution of String.prototype.replace for a pattern that is a string
\* (no captures): in the replacement $$ stands for $, $& for the text matched,
\* $ followed by U+0060 for the text before the match, $' for the text after
\* it; any other $ stands for itself
RECURSIVE GetSubstitution(_, _, _, _)
GetSubstitution(repl, matched, before, after) ==
  LET d == indexOf(repl, << "$" >>)
  IN  IF d = -1 \/ d + 1 >= Len(repl) THEN repl
      ELSE LET c    == repl[d + 2]
               head == SubSeq(repl, 1, d)
               rest == SubSeq(repl, d + 3, Len(repl))
           IN  CASE c = "$" ->
                      head \o << "$" >>
                           \o GetSubstitution(rest, matched, before, after)
                 [] c = "&" ->
                      head \o matched
                           \o GetSubstitution(rest, matched, before, after)
                 [] c = BackTick ->
                      head \o before
                           \o GetSubstitution(rest, matched, before, after)
                 [] c = "'" ->
                      head \o after
                           \o GetSubstitution(rest, matched, before, after)
                 [] OTHER ->
                      head \o << "$" >>
                           \o GetSubstitution(SubSeq(repl, d + 2, Len(repl)),
                                              matched, before, after)

\* String.prototype.replace(pattern, replacement), both strings: the first
\* occurrence of the pattern is replaced
replace(s, pattern, replacement) ==
  LET p     == indexOf(s, pattern)
      before == SubSeq(s, 1, p)
      after  == SubSeq(s, p + Len(pattern) + 1, Len(s))
  IN  IF p = -1 THEN s
      ELSE before \o GetSubstitution(replacement, pattern, before, after)
                  \o after

\* lines 417-427: the chunk between its two rules
TranscriptSection(i, chunks) ==
  Chars("\n\n---\n## TRANSCRIPT CONTINUATION (Part ")
  \o Chars(ToString(i + 1)) \o Chars(" of ")
  \o Chars(ToString(Len(chunks))) \o Chars(")\n---\n\n")
  \o chunks[i + 1]
  \o Chars("\n\n---\nEND OF TRANSCRIPT SECTION\n---")

\* lines 429-431
FinalSuffix(i, chunks) ==
  IF IsLastChunk(i, chunks) THEN FINAL_CHUNK_SUFFIX ELSE << >>

\* lines 413-431: the prompt of chunk i >= 1
ContinuationPrompt(i, chunks, previousSummary, lastSectionPreview) ==
  replace(replace(CONTINUATION_PROMPT, PREVIOUS_SUMMARY, previousSummary),
          LAST_SECTION_PREVIEW, lastSectionPreview)
  \o TranscriptSection(i, chunks)
  \o FinalSuffix(i, chunks)

\* results of the backend with $ sequences and with a placeholder in them
\*   ## Run\necho $$
R_Pid == Chars("## Run\necho $$")

\*   ## A $& B\nxy
R_Amp == Chars("## A $& B\nxy")

\*   ## Q\nprintf $'z' $1 $
R_Quote == Chars("## Q\nprintf $'z' $1 $")

\*   ## T\nx $` y
R_Tick == Chars("## T\nx $") \o << BackTick >> \o Chars(" y")

\*   ## {LAST_SECTION_PREVIEW}\nuv
R_Slot == Chars("## {LAST_SECTION_PREVIEW}\nuv")

PromptResults == { R_Cont, R_Plain, R_Pid, R_Amp, R_Quote, R_Tick, R_Slot }

\* responses when the prompt of chunk i >= 1 is built: i results
PromptResponses ==
  { << a >> : a \in PromptResults }
    \cup { << a, b >> : a \in { R_Cont, R_Slot, R_Amp }, b \in PromptResults }

\* chunks: the chunk of the prompt is the last one or is followed by another
PromptChunks(i) ==
  { [ k \in 1..n |-> IF k = i + 1 THEN Text51 ELSE Text50 ] :
      n \in { i + 1, i + 2 } }

PromptInit ==
  /\ ptPc = "call"
  /\ ptResponses \in PromptResponses
  /\ ptChunks \in PromptChunks(Len(ptResponses))
  /\ ptPrompt = << >>
  /\ ChunkIdle
  /\ SummaryIdle
  /\ MergeIdle
  /\ SelectIdle
  /\ FetchIdle
  /\ ServerOff

\* lines 413-431, with the two context strings as lines 445-446 left them
\* after the chunk before
PromptBuild ==
  /\ ptPc = "call"
  /\ ptPrompt' =
       ContinuationPrompt(Len(ptResponses), ptChunks,
                          extractSummary(SummaryInput(ptResponses)),
                          getLastSectionPreview(ptResponses[Len(ptResponses)]))
  /\ ptPc' = "built"
  /\ UNCHANGED << ptResponses, ptChunks, ckVars, sumVars, mrVars, plVars, selVars, ftVars >>

PromptNext == PromptBuild

SpecPrompt == PromptInit /\ [][PromptNext]_vars

\* the template before, between and after its two placeholders
TemplateHead ==
  SubSeq(CONTINUATION_PROMPT, 1, indexOf(CONTINUATION_PROMPT, PREVIOUS_SUMMARY))

TemplateMiddle ==
  SubSeq(CONTINUATION_PROMPT,
         indexOf(CONTINUATION_PROMPT, PREVIOUS_SUMMARY)
           + Len(PREVIOUS_SUMMARY) + 1,
         indexOf(CONTINUATION_PROMPT, LAST_SECTION_PREVIEW))

TemplateTail ==
  SubSeq(CONTINUATION_PROMPT,
         indexOf(CONTINUATION_PROMPT, LAST_SECTION_PREVIEW)
           + Len(LAST_SECTION_PREVIEW) + 1,
         Len(CONTINUATION_PROMPT))

\* the two context strings when the prompt is built
SummaryNow == extractSummary(Join(ptResponses, << "\n", "\n" >>))

PreviewNow == getLastSectionPreview(ptResponses[Len(ptResponses)])

\* the template with the two context strings in its slots, character for
\* character
SlotsFilledVerbatim ==
  TemplateHead \o SummaryNow \o TemplateMiddle \o PreviewNow \o TemplateTail

\* s begins with p
StartsWith(s, p) == Len(p) <= Len(s) /\ SubSeq(s, 1, Len(p)) = p

\* C30: the prompt of a continuation chunk is the continuation template with
\* previousSummary in place of {PREVIOUS_SUMMARY} and lastSectionPreview in
\* place of {LAST_SECTION_PREVIEW}, both character for character, followed by
\* the part line and the chunk text, whatever the two strings contain.
C30_ContextVerbatim ==
  ptPc = "built" =>
    LET i    == Len(ptResponses)
        body == SlotsFilledVerbatim
    IN  /\ StartsWith(ptPrompt, body)
        /\ StartsWith(SubSeq(ptPrompt, Len(body) + 1, Len(ptPrompt)),
                      TranscriptSection(i, ptChunks))

\* a continuation prompt was built from a last section that holds "$$"
C30_Witness ==
  /\ ptPc = "built"
  /\ Occurrences(PreviewNow, << "$", "$" >>) # {}
  /\ StartsWith(ptPrompt, TemplateHead)
  /\ Len(ptPrompt) > Len(CONTINUATION_PROMPT)

=============================================================================
